---- MODULE Spec2Model ----
(***************************************************************************)
(* Research orchestration engine of google-research-mcp (src/src/index.ts):*)
(* aspect planning, Subagent execution, coverage evaluation with adaptive  *)
(* stopping, gap detection and citation assignment.                        *)
(*                                                                         *)
(* Strings are sequences of tokens (words and the ":" separator), so that  *)
(* formatting and parsing are computed, not assumed.  One session is       *)
(* modelled.  JavaScript runs every handler to its next await without      *)
(* interruption: `turn` names the continuation that holds the thread, and  *)
(* "free" means the event loop is idle and any ready continuation may run. *)
(***************************************************************************)
EXTENDS Integers, Sequences, FiniteSets, TLC

(***************************************************************************)
(* Bounds of the model.                                                    *)
(***************************************************************************)
\* tool calls (add_source, run_subagent, evaluate_coverage, research_session
\* complete) issued on one session
MaxToolCalls == 3

\* tool calls issued on the session of a finished google_research run
MaxPostRunCalls == 1

\* words of a topic handed to plan(topic, depth)
MaxTopicLen == 2

Depths == {"basic", "moderate", "comprehensive"}

\* topics the sessions are created with
Topics == {<<"X">>}

\* topics plan(topic, depth) is applied to
TopicWords == {"X", ":", "Missing"}
PlanTopics == UNION {[1..n -> TopicWords] : n \in 1..MaxTopicLen}

(***************************************************************************)
(* Configuration tables.                                                   *)
(***************************************************************************)
COVERAGE_THRESHOLDS(d) ==
  CASE d = "basic" -> 60
    [] d = "moderate" -> 75
    [] d = "comprehensive" -> 90

MIN_SOURCES_PER_ASPECT(d) ==
  CASE d = "basic" -> 2
    [] d = "moderate" -> 3
    [] d = "comprehensive" -> 5

\* a cap table that grants the basic tier a third pass
MaxIterLoose(d) == IF d = "comprehensive" THEN 4 ELSE 3

\* createSession: maxIter
MaxIter(d) == IF d = "basic" THEN 2 ELSE IF d = "moderate" THEN 3 ELSE 4

(***************************************************************************)
(* Sequence helpers.                                                       *)
(***************************************************************************)
Min(a, b) == IF a < b THEN a ELSE b

Last(s) == s[Len(s)]

\* Array.prototype.slice(0, n)
Take(s, n) == SubSeq(s, 1, Min(n, Len(s)))

\* Array.prototype.slice(-n)
TakeLast(s, n) == SubSeq(s, IF Len(s) > n THEN Len(s) - n + 1 ELSE 1, Len(s))

\* Array.prototype.filter
Filter(s, Keep(_)) == SelectSeq(s, Keep)

\* Array.prototype.some
Some(s, P(_)) == \E i \in 1..Len(s) : P(s[i])

\* [...new Set(s)]: first occurrences, in order
Unique(s) ==
  LET first == SelectSeq([i \in 1..Len(s) |-> i],
                         LAMBDA i : \A j \in 1..(i - 1) : s[j] # s[i])
  IN  [k \in 1..Len(first) |-> s[first[k]]]

\* String.prototype.includes, on tokens: sub occurs as a contiguous run of s
Includes(s, sub) ==
  \E i \in 0..(Len(s) - Len(sub)) : SubSeq(s, i + 1, i + Len(sub)) = sub

\* sources.reduce((sum, s) => sum + s.contentLength, 0)
RECURSIVE TotalContent(_)
TotalContent(ss) ==
  IF ss = <<>> THEN 0
  ELSE IF Len(ss) = 1 THEN ss[1].contentLength
  ELSE LET half == Len(ss) \div 2
       IN  TotalContent(SubSeq(ss, 1, half))
           + TotalContent(SubSeq(ss, half + 1, Len(ss)))

(***************************************************************************)
(* LeadResearcher: plan.                                                   *)
(***************************************************************************)
CoreAspects(t) ==
  << t \o <<"overview", "definition">>,
     t \o <<"how", "it", "works", "mechanism">> >>

ModerateAspects(t) ==
  << t \o <<"use", "cases", "applications">>,
     t \o <<"benefits", "advantages">>,
     t \o <<"challenges", "limitations", "problems">> >>

ComprehensiveAspects(t) ==
  << t \o <<"history", "evolution", "development">>,
     t \o <<"comparison", "alternatives", "vs">>,
     t \o <<"implementation", "technical", "details">>,
     t \o <<"future", "trends", "predictions">>,
     t \o <<"research", "papers", "academic">>,
     t \o <<"case", "studies", "examples", "real", "world">> >>

\* a planner whose comprehensive tier leaves the moderate aspects out
thinkPlanApproachSkipping(t, d) ==
  IF d = "basic" THEN CoreAspects(t)
  ELSE IF d = "moderate" THEN CoreAspects(t) \o ModerateAspects(t)
  ELSE CoreAspects(t) \o ComprehensiveAspects(t)

thinkPlanApproach(t, d) ==
  IF d = "basic" THEN CoreAspects(t)
  ELSE IF d = "moderate" THEN CoreAspects(t) \o ModerateAspects(t)
  ELSE CoreAspects(t) \o ModerateAspects(t) \o ComprehensiveAspects(t)

(***************************************************************************)
(* SourceQualityAssessor.  A URL is [domain, path]; the hostname patterns  *)
(* are matched in the order of the code.                                   *)
(***************************************************************************)
PrimaryDomains == {"agency.gov", "arxiv.org"}
AuthoritativeDomains == {"en.wikipedia.org"}
QualityDomains == {"stackoverflow.com"}
GeneralDomains == {"medium.com"}
LowDomains == {"reddit.com"}

\* an assessor without the primary tier
assessSourceQualityNoPrimary(url) ==
  IF url.domain \in AuthoritativeDomains THEN [score |-> 8, tier |-> "authoritative"]
  ELSE IF url.domain \in QualityDomains THEN [score |-> 7, tier |-> "quality"]
  ELSE IF url.domain \in LowDomains THEN [score |-> 3, tier |-> "low"]
  ELSE [score |-> 5, tier |-> "general"]

assessSourceQuality(url) ==
  IF url.domain \in PrimaryDomains THEN [score |-> 10, tier |-> "primary"]
  ELSE IF url.domain \in AuthoritativeDomains
       THEN [score |-> 8, tier |-> "authoritative"]
  ELSE IF url.domain \in QualityDomains THEN [score |-> 7, tier |-> "quality"]
  ELSE IF url.domain \in GeneralDomains THEN [score |-> 5, tier |-> "general"]
  ELSE IF url.domain \in LowDomains THEN [score |-> 3, tier |-> "low"]
  ELSE [score |-> 5, tier |-> "general"]

getDomain(url) == url.domain

(***************************************************************************)
(* External collaborators.  The search provider and the page fetcher are   *)
(* deterministic per session: `provider` names the behaviour the session   *)
(* runs against.  A search answers [error, items]; an item is [title, link]*)
(* and a link [domain, path, k].                                           *)
(*   gov    one .gov result per query, a different page for each query,    *)
(*          5,000 characters per page                                      *)
(*   govone one .gov result per query, the same page for every query,      *)
(*          5,000 characters                                               *)
(*   unconfigured  GOOGLE_API_KEY or GOOGLE_CX is not set: every search    *)
(*          throws before a request is made                                *)
(*   empty  no results                                                     *)
(*   wiki   a full page of encyclopedia results per query, 2,000           *)
(*          characters each                                                *)
(*   mixed  queries ending in "mechanism" or "explanation" fail with a     *)
(*          ProviderError; the others return one preprint page shared by   *)
(*          all queries (cut to the caller's maximum length), a            *)
(*          social-media page, a blog page whose extraction yields nothing *)
(*          and a Q&A page with 120 characters and no long line            *)
(***************************************************************************)
Providers == {"gov", "govone", "unconfigured", "empty", "wiki", "mixed"}

\* googleSearch(query, 5) in executeSubagent
NumResults == 5

Link(d, q, k) == [domain |-> d, path |-> q, k |-> k]

Item(d, q, k) == [title |-> <<d>> \o q, link |-> Link(d, q, k)]

SharedPaper == Item("arxiv.org", <<>>, 1)

\* the queries the "mixed" provider rejects
MixedRejects(q) == q # <<>> /\ Last(q) \in {"mechanism", "explanation"}

googleSearch(p, q) ==
  CASE p = "gov" ->
         [error |-> FALSE, items |-> <<Item("agency.gov", q, 1)>>]
    [] p = "govone" ->
         [error |-> FALSE, items |-> <<Item("agency.gov", <<>>, 1)>>]
    [] p = "unconfigured" -> [error |-> TRUE, items |-> <<>>]
    [] p = "empty" -> [error |-> FALSE, items |-> <<>>]
    [] p = "wiki" ->
         [error |-> FALSE,
          items |-> [k \in 1..NumResults |-> Item("en.wikipedia.org", q, k)]]
    [] p = "mixed" ->
         IF MixedRejects(q) THEN [error |-> TRUE, items |-> <<>>]
         ELSE [error |-> FALSE,
               items |-> <<SharedPaper, Item("reddit.com", q, 1),
                           Item("medium.com", q, 1),
                           Item("stackoverflow.com", q, 1)>>]

\* length of the page text before the slice to maxLength, and whether one
\* of its lines is longer than 50 characters
PageLength(p, url) ==
  CASE url.domain = "agency.gov" -> 5000
    [] url.domain = "en.wikipedia.org" -> 2000
    [] url.domain = "arxiv.org" -> 60000
    [] url.domain = "stackoverflow.com" -> 120
    [] OTHER -> 0

fetchFullPageContent(p, url, maxLength) ==
  LET n == Min(PageLength(p, url), maxLength)
  IN  [length |-> n, para |-> n > 200]

(***************************************************************************)
(* Session state.                                                          *)
(***************************************************************************)
VARIABLES
  mode,             \* "run": google_research; "manual": research_session create
  provider,         \* behaviour of the external collaborators
  topic, depth, maxIterations,
  status, iteration,
  sources,          \* session.sources
  subagents,        \* session.subagents
  plan, context, findings, gaps, aspectsCovered, iterationHistory,  \* memory
  finalReport, citedReport,
  pc,               \* position of the handler that drives the session
  newSubagents,     \* indices in subagents of the pass being awaited
  turn,             \* continuation holding the thread, or "free"
  toolCalls,        \* tool calls issued so far
  planOut,          \* results of plan(topic, d) per depth tier
  coveredAtEval,    \* history: aspectsCovered as the last evaluation left it
  extractionLog,    \* history: URLs whose extraction came back with at most
                    \* 100 characters, and those of them requested again
  firstEnded,       \* history: index in subagents of the Subagent of the pass
                    \* being awaited that completed first, 0 while none has
  inFlight,         \* requests of a Subagent that have not returned yet
  pending           \* results.items a Subagent has still to go through

vars == <<mode, provider, topic, depth, maxIterations, status, iteration,
          sources, subagents, plan, context, findings, gaps, aspectsCovered,
          iterationHistory, finalReport, citedReport, pc, newSubagents, turn,
          toolCalls, planOut, coveredAtEval, extractionLog,
          firstEnded, inFlight, pending>>

sessionVars == <<topic, depth, maxIterations>>
memoryVars == <<plan, context, findings, gaps, aspectsCovered, iterationHistory>>
reportVars == <<finalReport, citedReport>>
envVars == <<mode, provider, planOut>>
awaitVars == <<inFlight, pending>>
ghostVars == <<coveredAtEval, extractionLog, firstEnded>>

NoAspect == <<>>
NoReport == [made |-> FALSE]
EmptyMap == [x \in {} |-> <<>>]

\* Map.get(k) || []
MapGet(m, k) == IF k \in DOMAIN m THEN m[k] ELSE <<>>

\* Map.set(k, v)
MapSet(m, k, v) == [x \in DOMAIN m \cup {k} |-> IF x = k THEN v ELSE m[x]]

\* createSession
createSession(t, d) ==
  /\ topic = t
  /\ depth = d
  /\ maxIterations = MaxIter(d)
  /\ sources = <<>>
  /\ subagents = <<>>
  /\ plan = <<>>
  /\ context = EmptyMap
  /\ findings = EmptyMap
  /\ gaps = <<>>
  /\ aspectsCovered = {}
  /\ iterationHistory = <<>>
  /\ iteration = 0
  /\ status = "planning"
  /\ finalReport = NoReport
  /\ citedReport = NoReport

(***************************************************************************)
(* Subagent: query generation and execution.                               *)
(***************************************************************************)
generateAspectQueries(aspect, t, fnd, gp) ==
  LET previousFindings == MapGet(fnd, aspect)
      refine == IF Len(previousFindings) > 0
                THEN << aspect \o <<"detailed", "explanation">>,
                        aspect \o <<"expert", "analysis">> >>
                ELSE << t \o TakeLast(aspect, 2) >>
      \* aspect.split(' ')[0] of an empty aspect is "", which every gap includes
      relevantGaps ==
        Filter(gp, LAMBDA g : aspect = <<>> \/ Includes(g, <<aspect[1]>>))
      gapQueries == [i \in 1..Len(Take(relevantGaps, 2)) |-> t \o relevantGaps[i]]
  IN  <<aspect>> \o refine \o gapQueries

createSubagent(aspect, manual) ==
  [aspect |-> aspect, status |-> "pending",
   queries |-> generateAspectQueries(aspect, topic, findings, gaps),
   qi |-> 0, sources |-> <<>>, findings |-> <<>>, ended |-> FALSE,
   manual |-> manual]

\* an item test that does not look into the Subagent's own buffer
ProcessItemNoBufferTest(buf, item, aspect, maxContentPerPage) ==
  LET quality == assessSourceQuality(item.link)
      content == fetchFullPageContent(provider, item.link, maxContentPerPage)
  IN  IF Some(sources, LAMBDA x : x.url = item.link) THEN buf
      ELSE IF quality.score < 5 THEN buf
      ELSE IF content.length > 100
           THEN Append(buf, [title |-> item.title, url |-> item.link,
                             contentLength |-> content.length,
                             para |-> content.para,
                             qualityScore |-> quality.score,
                             qualityTier |-> quality.tier,
                             domain |-> getDomain(item.link),
                             aspect |-> aspect, citationId |-> 0])
           ELSE buf

\* executeSubagent, the body of `for (const item of results.items)`: buf is
\* subagent.sources so far
ProcessItem(buf, item, aspect, maxContentPerPage) ==
  LET quality == assessSourceQuality(item.link)
      content == fetchFullPageContent(provider, item.link, maxContentPerPage)
  IN  IF Some(sources, LAMBDA x : x.url = item.link) THEN buf
      ELSE IF Some(buf, LAMBDA x : x.url = item.link) THEN buf
      ELSE IF quality.score < 5 THEN buf
      ELSE IF content.length > 100
           THEN Append(buf, [title |-> item.title, url |-> item.link,
                             contentLength |-> content.length,
                             para |-> content.para,
                             qualityScore |-> quality.score,
                             qualityTier |-> quality.tier,
                             domain |-> getDomain(item.link),
                             aspect |-> aspect, citationId |-> 0])
           ELSE buf

\* executeSubagent, one pass of `for (const query of subagent.queries)`
RECURSIVE ProcessItems(_, _, _, _)
ProcessItems(buf, items, aspect, maxContentPerPage) ==
  IF items = <<>> THEN buf
  ELSE ProcessItems(ProcessItem(buf, Head(items), aspect, maxContentPerPage),
                    Tail(items), aspect, maxContentPerPage)

\* executeSubagent: the URLs of one pass of `for (const item of results.items)`
\* that reach fetchFullPageContent and yield at most 100 characters
RECURSIVE FailedExtractions(_, _, _, _)
FailedExtractions(buf, items, aspect, maxContentPerPage) ==
  IF items = <<>> THEN <<>>
  ELSE LET item == Head(items)
           requested == /\ ~Some(sources, LAMBDA x : x.url = item.link)
                        /\ ~Some(buf, LAMBDA x : x.url = item.link)
                        /\ assessSourceQuality(item.link).score >= 5
           content == fetchFullPageContent(provider, item.link, maxContentPerPage)
       IN  (IF requested /\ content.length <= 100 THEN <<item.link>> ELSE <<>>)
             \o FailedExtractions(ProcessItem(buf, item, aspect, maxContentPerPage),
                                  Tail(items), aspect, maxContentPerPage)

\* the failed extractions of one query; none when the search throws
FailedExtractionsOfQuery(buf, query, aspect, maxContentPerPage) ==
  LET results == googleSearch(provider, query)
  IN  IF results.error THEN <<>>
      ELSE FailedExtractions(buf, results.items, aspect, maxContentPerPage)

NoExtractions == [failed |-> {}, again |-> {}]

\* the log after the failed extractions `urls`, in order
RECURSIVE LogExtractions(_, _)
LogExtractions(log, urls) ==
  IF urls = <<>> THEN log
  ELSE LogExtractions([failed |-> log.failed \cup {Head(urls)},
                       again |-> IF Head(urls) \in log.failed
                                 THEN log.again \cup {Head(urls)}
                                 ELSE log.again],
                      Tail(urls))

\* a catch block that also discards what the Subagent had buffered
ProcessQueryDropping(buf, query, aspect, maxContentPerPage) ==
  LET results == googleSearch(provider, query)
  IN  IF results.error THEN <<>>
      ELSE ProcessItems(buf, results.items, aspect, maxContentPerPage)

\* try { googleSearch; for (const item of results.items) ... } catch { log }
ProcessQuery(buf, query, aspect, maxContentPerPage) ==
  LET results == googleSearch(provider, query)
  IN  IF results.error THEN buf
      ELSE ProcessItems(buf, results.items, aspect, maxContentPerPage)

subagentThinkEvaluate(sa) ==
  LET withPara == Filter(sa.sources, LAMBDA x : x.para)
  IN  [i \in 1..Len(withPara) |->
         [tier |-> withPara[i].qualityTier, title |-> withPara[i].title]]

(***************************************************************************)
(* LeadResearcher: merge, coverage score, gaps, stopping rule.             *)
(***************************************************************************)
\* for (const source of subagent.sources) if (!session.sources.some(...)) push
RECURSIVE MergeSources(_, _)
MergeSources(ss, buf) ==
  IF buf = <<>> THEN ss
  ELSE IF Some(ss, LAMBDA x : x.url = Head(buf).url)
       THEN MergeSources(ss, Tail(buf))
       ELSE MergeSources(Append(ss, Head(buf)), Tail(buf))

\* a score without its Math.min limits
CapNone(x, limit) == x

\* Math.min(x, limit) in calculateCoverageScore
Cap(x, limit) == IF x < limit THEN x ELSE limit

\* Math.round of a non-negative rational n / d
RoundDiv(n, d) == (2 * n + d) \div (2 * d)

CountTier(ss, tier) == Len(Filter(ss, LAMBDA x : x.qualityTier = tier))

\* a score whose aspect term counts the planned aspects not yet covered
calculateCoverageScoreOfUncovered(ss, covered, t, d) ==
  LET totalAspects == Len(thinkPlanApproach(t, d))
      uncoveredAspects == Cardinality({thinkPlanApproach(t, d)[n] :
                                         n \in 1..totalAspects} \ covered)
      quality == Cap(CountTier(ss, "primary") * 5, 25)
                 + Cap(CountTier(ss, "authoritative") * 3, 15)
      totalContent == TotalContent(ss)
      volume == IF totalContent > 100000 THEN 10
                ELSE IF totalContent > 50000 THEN 5 ELSE 0
  IN  Cap(RoundDiv(uncoveredAspects * 50 + (quality + volume) * totalAspects,
                   totalAspects), 100)

calculateCoverageScore(ss, covered, t, d) ==
  LET totalAspects == Len(thinkPlanApproach(t, d))
      coveredAspects == Cardinality(covered)
      quality == Cap(CountTier(ss, "primary") * 5, 25)
                 + Cap(CountTier(ss, "authoritative") * 3, 15)
      totalContent == TotalContent(ss)
      volume == IF totalContent > 100000 THEN 10
                ELSE IF totalContent > 50000 THEN 5 ELSE 0
      \* the aspect term is the only fraction: round it with the integers added
  IN  Cap(RoundDiv(coveredAspects * 50 + (quality + volume) * totalAspects,
                   totalAspects), 100)

\* a gap finder that reports uncovered aspects only
GapsForMissingOnly(ss, covered, d, aspect) ==
  IF aspect \notin covered THEN << <<"Missing", "coverage", ":">> \o aspect >> ELSE <<>>

\* a gap test that asks for a primary Source at every depth
GapsForAnyDepth(ss, covered, d, aspect) ==
  LET aspectSources == Filter(ss, LAMBDA x : x.aspect = aspect)
  IN  IF aspect \notin covered THEN << <<"Missing", "coverage", ":">> \o aspect >>
      ELSE (IF Len(aspectSources) < MIN_SOURCES_PER_ASPECT(d)
            THEN << <<"Insufficient", "sources", "for", ":">> \o aspect >>
            ELSE <<>>)
           \o (IF CountTier(aspectSources, "primary") = 0
               THEN << <<"No", "primary", "sources", "for", ":">> \o aspect >>
               ELSE <<>>)

\* the body of the loop of identifyGaps for one planned aspect
GapsFor(ss, covered, d, aspect) ==
  LET aspectSources == Filter(ss, LAMBDA x : x.aspect = aspect)
  IN  IF aspect \notin covered THEN << <<"Missing", "coverage", ":">> \o aspect >>
      ELSE (IF Len(aspectSources) < MIN_SOURCES_PER_ASPECT(d)
            THEN << <<"Insufficient", "sources", "for", ":">> \o aspect >>
            ELSE <<>>)
           \o (IF CountTier(aspectSources, "primary") = 0 /\ d = "comprehensive"
               THEN << <<"No", "primary", "sources", "for", ":">> \o aspect >>
               ELSE <<>>)

RECURSIVE GapsOver(_, _, _, _)
GapsOver(aspects, ss, covered, d) ==
  IF aspects = <<>> THEN <<>>
  ELSE GapsFor(ss, covered, d, Head(aspects)) \o GapsOver(Tail(aspects), ss, covered, d)

identifyGaps(ss, covered, t, d) == GapsOver(thinkPlanApproach(t, d), ss, covered, d)

\* a stopping rule whose iteration test is off by one
DecideLate(coverageScore, threshold, nSources, minSources, iter, maxIter, gp) ==
  IF coverageScore >= threshold /\ nSources >= minSources
  THEN [decision |-> "exit", reasoning |-> "meets threshold"]
  ELSE IF iter >= maxIter
  THEN [decision |-> "exit", reasoning |-> "Max iterations reached"]
  ELSE IF Len(gp) = 0
  THEN [decision |-> "exit", reasoning |-> "No significant gaps"]
  ELSE [decision |-> "continue", reasoning |-> "below threshold"]

\* the if / else-if chain of thinkSynthesizeAndEvaluate
Decide(coverageScore, threshold, nSources, minSources, iter, maxIter, gp) ==
  IF coverageScore >= threshold /\ nSources >= minSources
  THEN [decision |-> "exit", reasoning |-> "meets threshold"]
  ELSE IF iter >= maxIter - 1
  THEN [decision |-> "exit", reasoning |-> "Max iterations reached"]
  ELSE IF Len(gp) = 0
  THEN [decision |-> "exit", reasoning |-> "No significant gaps"]
  ELSE [decision |-> "continue", reasoning |-> "below threshold"]

\* a merge that walks session.subagents from its last entry to its first
RECURSIVE MergeAllLastFirst(_, _)
MergeAllLastFirst(ss, sas) ==
  IF sas = <<>> THEN ss
  ELSE MergeAllLastFirst(MergeSources(ss, Last(sas).sources),
                         SubSeq(sas, 1, Len(sas) - 1))

\* thinkSynthesizeAndEvaluate up to the gap list: every Subagent of the
\* session is merged, whatever its status
RECURSIVE MergeAll(_, _)
MergeAll(ss, sas) ==
  IF sas = <<>> THEN ss
  ELSE MergeAll(MergeSources(ss, Head(sas).sources), Tail(sas))

RECURSIVE StoreFindings(_, _)
StoreFindings(fnd, sas) ==
  IF sas = <<>> THEN fnd
  ELSE StoreFindings(MapSet(fnd, Head(sas).aspect,
                            MapGet(fnd, Head(sas).aspect) \o Head(sas).findings),
                     Tail(sas))

CompletedAspects(sas) ==
  LET done == Filter(sas, LAMBDA x : x.status = "completed")
  IN  [i \in 1..Len(done) |-> done[i].aspect]

EvaluationOf(ss, covered, sas, iter) ==
  LET aspectsResearched == CompletedAspects(sas)
      coverageScore == calculateCoverageScore(ss, covered, topic, depth)
      gp == identifyGaps(ss, covered, topic, depth)
      threshold == COVERAGE_THRESHOLDS(depth)
      minSources == MIN_SOURCES_PER_ASPECT(depth) * Len(aspectsResearched)
      d == Decide(coverageScore, threshold, Len(ss), minSources, iter,
                  maxIterations, gp)
  IN  [iteration |-> iter, aspectsResearched |-> aspectsResearched,
       sourcesFound |-> Len(ss), coverageScore |-> coverageScore,
       gaps |-> gp, decision |-> d.decision,
       reasoning |-> <<d.reasoning, coverageScore, threshold, Len(ss),
                       maxIterations, Take(gp, 3)>>]

\* an evaluation that takes the length of the history for the iteration
thinkSynthesizeAndEvaluateByHistory ==
  LET ss == MergeAll(sources, subagents)
      covered == aspectsCovered \cup {subagents[i].aspect : i \in 1..Len(subagents)}
      result == EvaluationOf(ss, covered, subagents, Len(iterationHistory))
  IN  /\ sources' = ss
      /\ findings' = StoreFindings(findings, subagents)
      /\ aspectsCovered' = covered
      /\ gaps' = result.gaps
      /\ iterationHistory' = Append(iterationHistory, result)
      /\ coveredAtEval' = covered
      /\ UNCHANGED <<extractionLog, firstEnded>>

\* an evaluation that keeps only its own result in the history
thinkSynthesizeAndEvaluateLatestOnly ==
  LET ss == MergeAll(sources, subagents)
      covered == aspectsCovered \cup {subagents[i].aspect : i \in 1..Len(subagents)}
      result == EvaluationOf(ss, covered, subagents, iteration)
  IN  /\ sources' = ss
      /\ findings' = StoreFindings(findings, subagents)
      /\ aspectsCovered' = covered
      /\ gaps' = result.gaps
      /\ iterationHistory' = <<result>>
      /\ coveredAtEval' = covered
      /\ UNCHANGED <<extractionLog, firstEnded>>

\* merge, score, gaps, decision, and the push of the IterationResult
thinkSynthesizeAndEvaluate ==
  LET ss == MergeAll(sources, subagents)
      covered == aspectsCovered \cup {subagents[i].aspect : i \in 1..Len(subagents)}
      result == EvaluationOf(ss, covered, subagents, iteration)
  IN  /\ sources' = ss
      /\ findings' = StoreFindings(findings, subagents)
      /\ aspectsCovered' = covered
      /\ gaps' = result.gaps
      /\ iterationHistory' = Append(iterationHistory, result)
      /\ coveredAtEval' = covered
      /\ UNCHANGED <<extractionLog, firstEnded>>

(***************************************************************************)
(* LeadResearcher: aspect selection.                                       *)
(***************************************************************************)
\* g.match(/: (.+)$/): the text after the first ": "; <<>> when none
\* a parse that takes the text after the last colon
ParseGapAspectLast(g) ==
  LET colons == {i \in 1..(Len(g) - 1) : g[i] = ":"}
  IN  IF colons = {} THEN <<>>
      ELSE SubSeq(g, (CHOOSE i \in colons : \A j \in colons : i >= j) + 1, Len(g))

ParseGapAspect(g) ==
  LET colons == {i \in 1..(Len(g) - 1) : g[i] = ":"}
  IN  IF colons = {} THEN <<>>
      ELSE SubSeq(g, (CHOOSE i \in colons : \A j \in colons : i <= j) + 1, Len(g))

\* an aspect selection that follows every entry of the gap list
getAspectsForIterationAllGaps(allAspects, covered, gp, iter) ==
  LET uncoveredAspects == Filter(allAspects, LAMBDA a : a \notin covered)
      parsed == [i \in 1..Len(gp) |-> ParseGapAspect(gp[i])]
      gapAspects == Filter(parsed, LAMBDA a : a # <<>>)
      aspectsToResearch == Unique(gapAspects \o uncoveredAspects)
  IN  IF iter = 0 THEN Take(uncoveredAspects, Min(3, Len(uncoveredAspects)))
      ELSE Take(aspectsToResearch, Min(4, Len(aspectsToResearch)))

\* uncovered aspects in iteration 0; later the aspects of the "Missing
\* coverage" and "Insufficient" gaps, then the uncovered ones, at most 4
getAspectsForIteration(allAspects, covered, gp, iter) ==
  LET uncoveredAspects == Filter(allAspects, LAMBDA a : a \notin covered)
      named == Filter(gp, LAMBDA g : \/ Includes(g, <<"Missing", "coverage">>)
                                     \/ Includes(g, <<"Insufficient">>))
      parsed == [i \in 1..Len(named) |-> ParseGapAspect(named[i])]
      gapAspects == Filter(parsed, LAMBDA a : a # <<>>)
      aspectsToResearch == Unique(gapAspects \o uncoveredAspects)
  IN  IF iter = 0 THEN Take(uncoveredAspects, Min(3, Len(uncoveredAspects)))
      ELSE Take(aspectsToResearch, Min(4, Len(aspectsToResearch)))

(***************************************************************************)
(* CitationAgent and report.                                               *)
(***************************************************************************)
\* [...a].sort((a, b) => b.qualityScore - a.qualityScore): stable, so ss[i]
\* comes after the Sources of a higher score and the earlier ones of its own
Before(ss, i) ==
  {j \in 1..Len(ss) : \/ ss[j].qualityScore > ss[i].qualityScore
                       \/ (ss[j].qualityScore = ss[i].qualityScore /\ j < i)}

SortByScore(ss) ==
  LET at == [i \in 1..Len(ss) |-> Cardinality(Before(ss, i)) + 1]
  IN  [k \in 1..Len(ss) |-> ss[CHOOSE i \in 1..Len(ss) : at[i] = k]]

AssignCitationIds(ss) ==
  LET sortedSources == SortByScore(ss)
  IN  [i \in 1..Len(sortedSources) |-> [sortedSources[i] EXCEPT !.citationId = i]]

\* the counts generateFinalReport prints; the sentences of its text are not
\* followed for a session, insertCitations is applied to sentences of its own
generateFinalReport ==
  [made |-> TRUE, sentences |-> <<>>,
   iterations |-> iteration + 1, sources |-> Len(sources),
   subagents |-> Len(subagents), covered |-> Cardinality(aspectsCovered),
   coverage |-> IF iterationHistory = <<>> THEN 0
                ELSE Last(iterationHistory).coverageScore]

\* A sentence of report.split(/(?<=[.!?])\s+/) is [words, end]: its tokens,
\* and its last character when that is one of . ! ? ("" otherwise, as the
\* last piece of a text may end).  One token stands for 10 characters of a
\* title.
TitleMatchTokens == 3

\* String.prototype.toLowerCase on the tokens
LowerToken(w) == IF w = "Agency.gov" THEN "agency.gov" ELSE w

Lower(s) == [i \in 1..Len(s) |-> LowerToken(s[i])]

\* `[${source.citationId}]`
Marker(n) == "[" \o ToString(n) \o "]"

\* the test of insertCitations on a sentence and a Source
SentenceMatches(sentence, source) ==
  /\ source.citationId # 0
  /\ \/ Includes(Lower(sentence.words), <<LowerToken(source.domain)>>)
     \/ Includes(Lower(sentence.words), Take(Lower(source.title), TitleMatchTokens))

\* citedSentence.replace(/([.!?])$/, ` [${id}]$1`)
AddMarker(sentence, id) ==
  IF sentence.end \in {".", "!", "?"}
  THEN [sentence EXCEPT !.words = Append(@, Marker(id))]
  ELSE sentence

\* an inner loop without the break: every matching Source adds its marker
CiteSentenceEveryMatch(sentence, ss) ==
  LET hits == SelectSeq([k \in 1..Len(ss) |-> k],
                        LAMBDA k : /\ SentenceMatches(sentence, ss[k])
                                   /\ ~Includes(sentence.words,
                                                <<Marker(ss[k].citationId)>>))
  IN  IF sentence.end \in {".", "!", "?"}
      THEN [sentence EXCEPT
              !.words = @ \o [j \in 1..Len(hits) |-> Marker(ss[hits[j]].citationId)]]
      ELSE sentence

\* the inner loop of insertCitations: the first matching Source whose marker
\* the sentence does not hold yet ends the loop
CiteSentence(sentence, ss) ==
  LET hits == {k \in 1..Len(ss) :
                 /\ SentenceMatches(sentence, ss[k])
                 /\ ~Includes(sentence.words, <<Marker(ss[k].citationId)>>)}
  IN  IF hits = {} THEN sentence
      ELSE AddMarker(sentence, ss[CHOOSE k \in hits : \A j \in hits : k <= j].citationId)

\* the cited sentences and the references section
insertCitations(report, ss) ==
  LET cited == Filter(ss, LAMBDA x : x.citationId # 0)
  IN  [made |-> TRUE, report |-> report,
       sentences |-> [i \in 1..Len(report.sentences) |->
                        CiteSentence(report.sentences[i], ss)],
       references |-> [i \in 1..Len(cited) |-> cited[i].citationId]]

\* report is session.finalReport at the call
citationAgentProcess(report) ==
  /\ sources' = AssignCitationIds(sources)
  /\ citedReport' = IF report.made
                    THEN insertCitations(report, AssignCitationIds(sources))
                    ELSE citedReport

(***************************************************************************)
(* Scheduling.                                                             *)
(***************************************************************************)
Free == [who |-> "free", i |-> 0]
Handler == [who |-> "handler", i |-> 0]        \* google_research / complete
SubTurn(i) == [who |-> "sub", i |-> i]         \* executeSubagent of subagents[i]
ToolTurn(i) == [who |-> "tool", i |-> i]       \* run_subagent around subagents[i]

Terminal(sa) == sa.status \in {"completed", "failed"}

\* max_content_per_page defaults: google_research, add_source; run_subagent
RunMaxContent == 50000
ManualMaxContent == 30000

MaxContentFor(sa) == IF sa.manual THEN ManualMaxContent ELSE RunMaxContent

(***************************************************************************)
(* Init: the session as createSession returns it, inside the handler that  *)
(* created it.                                                             *)
(***************************************************************************)
Init ==
  /\ mode \in {"run", "manual"}
  /\ provider \in Providers
  /\ \E t \in Topics, d \in Depths : createSession(t, d)
  /\ pc = "created"
  /\ newSubagents = {}
  /\ turn = Handler
  /\ toolCalls = 0
  /\ planOut = EmptyMap
  /\ coveredAtEval = {}
  /\ extractionLog = NoExtractions
  /\ firstEnded = 0
  /\ inFlight = {}
  /\ pending = <<>>

savePlanToMemory(aspects) ==
  /\ plan' = aspects
  /\ context' = MapSet(context, "plan", aspects)

(***************************************************************************)
(* executeMultiAgentResearch.                                              *)
(***************************************************************************)
RunPlan ==
  /\ mode = "run" /\ pc = "created" /\ turn = Handler
  /\ status' = "planning"
  /\ savePlanToMemory(thinkPlanApproach(topic, depth))
  /\ pc' = "loop"
  /\ UNCHANGED <<sessionVars, envVars, awaitVars, ghostVars, reportVars, iteration, sources, subagents,
                 findings, gaps, aspectsCovered, iterationHistory, newSubagents,
                 turn, toolCalls>>

\* a loop whose while test stops one iteration short of the cap
RunLoopStoppingShort ==
  /\ mode = "run" /\ pc = "loop" /\ turn = Handler
  /\ IF iteration < maxIterations - 1
     THEN LET aspectsThisIteration ==
                getAspectsForIteration(plan, aspectsCovered, gaps, iteration)
              created == [i \in 1..Len(aspectsThisIteration) |->
                            createSubagent(aspectsThisIteration[i], FALSE)]
          IN  /\ status' = "researching"
              /\ IF Len(aspectsThisIteration) = 0
                 THEN /\ pc' = "synth"
                      /\ UNCHANGED <<subagents, newSubagents, firstEnded>>
                 ELSE /\ subagents' = subagents \o created
                      /\ firstEnded' = 0
                      /\ newSubagents' =
                           (Len(subagents) + 1)..(Len(subagents) + Len(created))
                      /\ pc' = "exec"
     ELSE /\ pc' = "synth"
          /\ UNCHANGED <<status, subagents, newSubagents, firstEnded>>
  /\ UNCHANGED <<sessionVars, envVars, awaitVars, coveredAtEval, extractionLog, reportVars, memoryVars, iteration, sources,
                 turn, toolCalls>>

\* the while test, the aspect selection and the creation of the Subagents
RunLoop ==
  /\ mode = "run" /\ pc = "loop" /\ turn = Handler
  /\ IF iteration < maxIterations
     THEN LET aspectsThisIteration ==
                getAspectsForIteration(plan, aspectsCovered, gaps, iteration)
              created == [i \in 1..Len(aspectsThisIteration) |->
                            createSubagent(aspectsThisIteration[i], FALSE)]
          IN  /\ status' = "researching"
              /\ IF Len(aspectsThisIteration) = 0
                 THEN /\ pc' = "synth"
                      /\ UNCHANGED <<subagents, newSubagents, firstEnded>>
                 ELSE /\ subagents' = subagents \o created
                      /\ firstEnded' = 0
                      /\ newSubagents' =
                           (Len(subagents) + 1)..(Len(subagents) + Len(created))
                      /\ pc' = "exec"
     ELSE /\ pc' = "synth"
          /\ UNCHANGED <<status, subagents, newSubagents, firstEnded>>
  /\ UNCHANGED <<sessionVars, envVars, awaitVars, coveredAtEval, extractionLog, reportVars, memoryVars, iteration, sources,
                 turn, toolCalls>>

\* executeSubagent up to its first await
StartSubagent(i) ==
  /\ subagents[i].status = "pending"
  /\ \A j \in 1..(i - 1) : subagents[j].status # "pending"
  /\ \/ turn = Handler /\ pc = "exec" /\ i \in newSubagents
     \/ turn = ToolTurn(i)
  /\ subagents' = [subagents EXCEPT ![i].status = "searching"]
  /\ turn' = IF turn = ToolTurn(i) THEN Free ELSE turn
  /\ UNCHANGED <<sessionVars, envVars, awaitVars, ghostVars, reportVars, memoryVars, status, iteration,
                 sources, pc, newSubagents, toolCalls>>

\* await Promise.all(...)
RunAwait ==
  /\ mode = "run" /\ pc = "exec" /\ turn = Handler
  /\ \A i \in newSubagents : subagents[i].status # "pending"
  /\ pc' = "await"
  /\ turn' = Free
  /\ UNCHANGED <<sessionVars, envVars, awaitVars, ghostVars, reportVars, memoryVars, status, iteration,
                 sources, subagents, newSubagents, toolCalls>>

\* one query of executeSubagent: the search, and the fetch of each result
SubagentQuery(i) ==
  /\ turn = Free
  /\ subagents[i].status = "searching"
  /\ subagents[i].qi < Len(subagents[i].queries)
  /\ LET sa == subagents[i]
         buf == ProcessQuery(sa.sources, sa.queries[sa.qi + 1], sa.aspect,
                             MaxContentFor(sa))
     IN  /\ subagents' = [subagents EXCEPT ![i].sources = buf, ![i].qi = sa.qi + 1]
         /\ turn' = IF sa.qi + 1 = Len(sa.queries) THEN SubTurn(i) ELSE Free
         /\ extractionLog' =
              LogExtractions(extractionLog,
                             FailedExtractionsOfQuery(sa.sources, sa.queries[sa.qi + 1],
                                                      sa.aspect, MaxContentFor(sa)))
  /\ UNCHANGED <<sessionVars, envVars, awaitVars, coveredAtEval, firstEnded, reportVars, memoryVars, status,
                 iteration, sources, pc, newSubagents, toolCalls>>

\* the think phase marking the Subagent completed without evaluating
SubagentThinkSkipping(i) ==
  /\ turn = SubTurn(i)
  /\ subagents[i].status = "searching"
  /\ subagents' = [subagents EXCEPT ![i].status = "completed",
                                    ![i].findings = subagentThinkEvaluate(subagents[i]),
                                    ![i].ended = TRUE]
  /\ UNCHANGED <<sessionVars, envVars, awaitVars, ghostVars, reportVars, memoryVars, status, iteration,
                 sources, pc, newSubagents, turn, toolCalls>>

\* Phase 2 of executeSubagent: status evaluating, findings
SubagentThink(i) ==
  /\ turn = SubTurn(i)
  /\ subagents[i].status = "searching"
  /\ subagents' = [subagents EXCEPT ![i].status = "evaluating",
                                    ![i].findings = subagentThinkEvaluate(subagents[i])]
  /\ UNCHANGED <<sessionVars, envVars, awaitVars, ghostVars, reportVars, memoryVars, status, iteration,
                 sources, pc, newSubagents, turn, toolCalls>>

\* a Subagent that merges its own buffer into the session when it completes
SubagentCompleteMerging(i) ==
  /\ turn = SubTurn(i)
  /\ subagents[i].status = "evaluating"
  /\ subagents' = [subagents EXCEPT ![i].status = "completed", ![i].ended = TRUE]
  /\ sources' = MergeSources(sources, subagents[i].sources)
  /\ turn' = IF subagents[i].manual THEN ToolTurn(i) ELSE Free
  /\ firstEnded' = IF firstEnded = 0 /\ i \in newSubagents /\ pc = "await"
                   THEN i ELSE firstEnded
  /\ UNCHANGED <<sessionVars, envVars, awaitVars, coveredAtEval, extractionLog, reportVars, memoryVars, status, iteration,
                 pc, newSubagents, toolCalls>>

\* Phase 3 of executeSubagent: status completed, endTime
SubagentComplete(i) ==
  /\ turn = SubTurn(i)
  /\ subagents[i].status = "evaluating"
  /\ subagents' = [subagents EXCEPT ![i].status = "completed", ![i].ended = TRUE]
  /\ turn' = IF subagents[i].manual THEN ToolTurn(i) ELSE Free
  /\ firstEnded' = IF firstEnded = 0 /\ i \in newSubagents /\ pc = "await"
                   THEN i ELSE firstEnded
  /\ UNCHANGED <<sessionVars, envVars, awaitVars, coveredAtEval, extractionLog, reportVars, memoryVars, status, iteration,
                 sources, pc, newSubagents, toolCalls>>

\* a barrier that opens at the first settled Subagent, as Promise.race would
AnySettled(started) == \E i \in started : Terminal(subagents[i])

\* a barrier that opens only when every Subagent has come back with a Source
AllSettledWithSources(started) ==
  \A i \in started : Terminal(subagents[i]) /\ subagents[i].sources # <<>>

\* await Promise.all(newSubagents.map(...)) has resolved
AllSettled(started) == \A i \in started : Terminal(subagents[i])

\* an evaluation step without the break on an exit decision
RunEvaluateNoBreak ==
  /\ mode = "run" /\ pc = "await" /\ turn = Free
  /\ AllSettled(newSubagents)
  /\ status' = "evaluating"
  /\ thinkSynthesizeAndEvaluate
  /\ iteration' = iteration + 1
  /\ pc' = "delay"
  /\ turn' = Free
  /\ UNCHANGED <<sessionVars, envVars, awaitVars, reportVars, plan, context, subagents,
                 newSubagents, toolCalls>>

\* Promise.all resolved: evaluate, then break or iterate
RunEvaluate ==
  /\ mode = "run" /\ pc = "await" /\ turn = Free
  /\ AllSettled(newSubagents)
  /\ status' = "evaluating"
  /\ thinkSynthesizeAndEvaluate
  /\ IF Last(iterationHistory').decision = "exit"
     THEN /\ pc' = "synth"
          /\ turn' = Handler
          /\ UNCHANGED iteration
     ELSE /\ iteration' = iteration + 1
          /\ pc' = "delay"
          /\ turn' = Free
  /\ UNCHANGED <<sessionVars, envVars, awaitVars, reportVars, plan, context, subagents,
                 newSubagents, toolCalls>>

\* the 500 ms timer between iterations
RunDelay ==
  /\ mode = "run" /\ pc = "delay" /\ turn = Free
  /\ pc' = "loop"
  /\ turn' = Handler
  /\ UNCHANGED <<sessionVars, envVars, awaitVars, ghostVars, reportVars, memoryVars, status, iteration,
                 sources, subagents, newSubagents, toolCalls>>

RunSynthesize ==
  /\ mode = "run" /\ pc = "synth" /\ turn = Handler
  /\ status' = "synthesizing"
  /\ finalReport' = generateFinalReport
  /\ pc' = "cite"
  /\ UNCHANGED <<sessionVars, envVars, awaitVars, ghostVars, memoryVars, citedReport, iteration, sources,
                 subagents, newSubagents, turn, toolCalls>>

\* a citation step that leaves session.status alone
RunCiteSilent ==
  /\ mode = "run" /\ pc = "cite" /\ turn = Handler
  /\ citationAgentProcess(finalReport)
  /\ pc' = "complete"
  /\ UNCHANGED <<sessionVars, envVars, awaitVars, ghostVars, memoryVars, finalReport, iteration,
                 subagents, newSubagents, turn, toolCalls, status>>

RunCite ==
  /\ mode = "run" /\ pc = "cite" /\ turn = Handler
  /\ status' = "citing"
  /\ citationAgentProcess(finalReport)
  /\ pc' = "complete"
  /\ UNCHANGED <<sessionVars, envVars, awaitVars, ghostVars, memoryVars, finalReport, iteration,
                 subagents, newSubagents, turn, toolCalls>>

RunComplete ==
  /\ mode = "run" /\ pc = "complete" /\ turn = Handler
  /\ status' = "completed"
  /\ pc' = "done"
  /\ turn' = Free
  /\ UNCHANGED <<sessionVars, envVars, awaitVars, ghostVars, reportVars, memoryVars, iteration, sources,
                 subagents, newSubagents, toolCalls>>

(***************************************************************************)
(* Tools on a session of the registry.  A session's id is first shown to   *)
(* the caller by research_session create, or in the report a finished      *)
(* google_research returns, so tool calls reach a session from then on.    *)
(***************************************************************************)
\* research_session create, after createSession
ManualCreate ==
  /\ mode = "manual" /\ pc = "created" /\ turn = Handler
  /\ savePlanToMemory(thinkPlanApproach(topic, depth))
  /\ pc' = "manual"
  /\ turn' = Free
  /\ UNCHANGED <<sessionVars, envVars, awaitVars, ghostVars, reportVars, status, iteration, sources,
                 subagents, findings, gaps, aspectsCovered, iterationHistory,
                 newSubagents, toolCalls>>

ToolsReady ==
  /\ turn = Free
  /\ \/ pc = "manual" /\ toolCalls < MaxToolCalls
     \/ pc = "done" /\ toolCalls < MaxPostRunCalls

\* links and aspects the caller passes
AddSourceLinks == {SharedPaper.link, Link("reddit.com", <<>>, 1)}
CallerAspects == {CoreAspects(topic)[1], <<"other">>}

\* add_source: no look-up of the URL in session.sources
AddSource(link, fetchContent) ==
  /\ ToolsReady
  /\ LET content == IF fetchContent
                    THEN fetchFullPageContent(provider, link, RunMaxContent)
                    ELSE [length |-> 0, para |-> FALSE]
         quality == assessSourceQuality(link)
     IN  sources' = Append(sources,
                           [title |-> <<"title">>, url |-> link,
                            contentLength |-> content.length,
                            para |-> content.para,
                            qualityScore |-> quality.score,
                            qualityTier |-> quality.tier,
                            domain |-> getDomain(link),
                            aspect |-> NoAspect, citationId |-> 0])
  /\ toolCalls' = toolCalls + 1
  /\ UNCHANGED <<sessionVars, envVars, awaitVars, ghostVars, reportVars, memoryVars, status, iteration,
                 subagents, pc, newSubagents, turn>>

\* run_subagent: createSubagent and the push; executeSubagent starts next
RunSubagentSpawn(aspect) ==
  /\ ToolsReady
  /\ subagents' = Append(subagents, createSubagent(aspect, TRUE))
  /\ turn' = ToolTurn(Len(subagents) + 1)
  /\ toolCalls' = toolCalls + 1
  /\ UNCHANGED <<sessionVars, envVars, awaitVars, ghostVars, reportVars, memoryVars, status, iteration,
                 sources, pc, newSubagents>>

\* a run_subagent that replaces the covered set by its own aspect
RunSubagentFinishResetting(i) ==
  /\ turn = ToolTurn(i)
  /\ subagents[i].status = "completed"
  /\ sources' = MergeSources(sources, subagents[i].sources)
  /\ aspectsCovered' = {subagents[i].aspect}
  /\ findings' = MapSet(findings, subagents[i].aspect, subagents[i].findings)
  /\ turn' = Free
  /\ UNCHANGED <<sessionVars, envVars, awaitVars, ghostVars, reportVars, plan, context, gaps,
                 iterationHistory, status, iteration, subagents, pc, newSubagents,
                 toolCalls>>

\* run_subagent after `await executeSubagent`
RunSubagentFinish(i) ==
  /\ turn = ToolTurn(i)
  /\ subagents[i].status = "completed"
  /\ sources' = MergeSources(sources, subagents[i].sources)
  /\ aspectsCovered' = aspectsCovered \cup {subagents[i].aspect}
  /\ findings' = MapSet(findings, subagents[i].aspect, subagents[i].findings)
  /\ turn' = Free
  /\ UNCHANGED <<sessionVars, envVars, awaitVars, ghostVars, reportVars, plan, context, gaps,
                 iterationHistory, status, iteration, subagents, pc, newSubagents,
                 toolCalls>>

\* evaluate_coverage
EvaluateCoverage ==
  /\ ToolsReady
  /\ thinkSynthesizeAndEvaluate
  /\ toolCalls' = toolCalls + 1
  /\ UNCHANGED <<sessionVars, envVars, awaitVars, reportVars, plan, context, status,
                 iteration, subagents, pc, newSubagents, turn>>

\* a research_session complete that regenerates whatever the status
CompleteBeginUnguarded ==
  /\ ToolsReady
  /\ status' = "synthesizing"
  /\ finalReport' = generateFinalReport
  /\ turn' = Handler
  /\ toolCalls' = toolCalls + 1
  /\ UNCHANGED <<sessionVars, envVars, awaitVars, ghostVars, memoryVars, citedReport, iteration, sources,
                 subagents, pc, newSubagents>>

\* research_session complete on a session that is not completed
CompleteBegin ==
  /\ ToolsReady
  /\ status # "completed"
  /\ status' = "synthesizing"
  /\ finalReport' = generateFinalReport
  /\ turn' = Handler
  /\ toolCalls' = toolCalls + 1
  /\ UNCHANGED <<sessionVars, envVars, awaitVars, ghostVars, memoryVars, citedReport, iteration, sources,
                 subagents, pc, newSubagents>>

CompleteEnd ==
  /\ pc = "manual" /\ turn = Handler
  /\ citationAgentProcess(finalReport)
  /\ status' = "completed"
  /\ turn' = Free
  /\ UNCHANGED <<sessionVars, envVars, awaitVars, ghostVars, memoryVars, finalReport, iteration,
                 subagents, pc, newSubagents, toolCalls>>

\* research_session complete on a completed session: the stored report
CompleteAgain ==
  /\ ToolsReady
  /\ status = "completed"
  /\ toolCalls' = toolCalls + 1
  /\ UNCHANGED <<sessionVars, envVars, awaitVars, ghostVars, reportVars, memoryVars, status, iteration,
                 sources, subagents, pc, newSubagents, turn>>

(***************************************************************************)
(* Specification.                                                          *)
(***************************************************************************)
Next ==
  \/ RunPlan
  \/ RunLoop
  \/ RunAwait
  \/ RunEvaluate
  \/ RunDelay
  \/ RunSynthesize
  \/ RunCite
  \/ RunComplete
  \/ \E i \in 1..Len(subagents) : StartSubagent(i)
  \/ \E i \in 1..Len(subagents) : SubagentQuery(i)
  \/ \E i \in 1..Len(subagents) : SubagentThink(i)
  \/ \E i \in 1..Len(subagents) : SubagentComplete(i)
  \/ ManualCreate
  \/ \E link \in AddSourceLinks, fetchContent \in BOOLEAN : AddSource(link, fetchContent)
  \/ \E aspect \in CallerAspects : RunSubagentSpawn(aspect)
  \/ \E i \in 1..Len(subagents) : RunSubagentFinish(i)
  \/ EvaluateCoverage
  \/ CompleteBegin
  \/ CompleteEnd
  \/ CompleteAgain

Spec == Init /\ [][Next]_vars

(***************************************************************************)
(* google_research alone: the handler and its Subagents, every search and  *)
(* fetch returning, and every continuation that is ready being run.        *)
(***************************************************************************)
InitRun == Init /\ mode = "run"

NextRun ==
  \/ RunPlan
  \/ RunLoop
  \/ RunAwait
  \/ RunEvaluate
  \/ RunDelay
  \/ RunSynthesize
  \/ RunCite
  \/ RunComplete
  \/ \E i \in 1..Len(subagents) : StartSubagent(i)
  \/ \E i \in 1..Len(subagents) : SubagentQuery(i)
  \/ \E i \in 1..Len(subagents) : SubagentThink(i)
  \/ \E i \in 1..Len(subagents) : SubagentComplete(i)

\* some continuation of the run is ready: the guards of the steps of NextRun
RunReady ==
  /\ mode = "run"
  /\ \/ turn = Handler /\ pc \in {"created", "loop", "synth", "cite", "complete"}
     \/ turn = Handler /\ pc = "exec"
          /\ \A i \in newSubagents : subagents[i].status # "pending"
     \/ turn = Free /\ pc = "await" /\ AllSettled(newSubagents)
     \/ turn = Free /\ pc = "delay"
     \/ \E i \in 1..Len(subagents) :
          \/ /\ subagents[i].status = "pending"
             /\ \A j \in 1..(i - 1) : subagents[j].status # "pending"
             /\ \/ turn = Handler /\ pc = "exec" /\ i \in newSubagents
                \/ turn = ToolTurn(i)
          \/ /\ turn = Free
             /\ subagents[i].status = "searching"
             /\ subagents[i].qi < Len(subagents[i].queries)
          \/ turn = SubTurn(i) /\ subagents[i].status \in {"searching", "evaluating"}

\* weak fairness of NextRun, with its enabling condition written out
RunFairness == []<>(~RunReady) \/ []<><<NextRun>>_vars

SpecRun == InitRun /\ [][NextRun]_vars /\ RunFairness

(***************************************************************************)
(* plan(topic, depth) as a function: the topic is drawn from PlanTopics    *)
(* and the plan of each depth tier is computed for it.                     *)
(***************************************************************************)
InitPlan ==
  /\ mode = "plan"
  /\ provider = "empty"
  /\ \E t \in PlanTopics, d \in Depths : createSession(t, d)
  /\ pc = "created"
  /\ newSubagents = {}
  /\ turn = Handler
  /\ toolCalls = 0
  /\ planOut = EmptyMap
  /\ coveredAtEval = {}
  /\ extractionLog = NoExtractions
  /\ firstEnded = 0
  /\ inFlight = {}
  /\ pending = <<>>

PlanCall(d) ==
  /\ mode = "plan"
  /\ d \notin DOMAIN planOut
  /\ planOut' = MapSet(planOut, d, thinkPlanApproach(topic, d))
  /\ UNCHANGED <<sessionVars, awaitVars, ghostVars, reportVars, memoryVars, mode, provider,
                 status, iteration, sources, subagents, pc, newSubagents, turn,
                 toolCalls>>

\* identifyGaps for the session's topic and depth, with no Source, when
\* nothing or the whole plan is covered
GapCall(covered) ==
  /\ mode = "plan"
  /\ aspectsCovered' = covered
  /\ gaps' = identifyGaps(<<>>, covered, topic, depth)
  /\ UNCHANGED <<sessionVars, envVars, awaitVars, ghostVars, reportVars, plan, context,
                 findings, iterationHistory, status, iteration, sources,
                 subagents, pc, newSubagents, turn, toolCalls>>

NextPlan ==
  \/ \E d \in Depths : PlanCall(d)
  \/ \E covered \in {{}, {thinkPlanApproach(topic, depth)[i] :
                              i \in 1..Len(thinkPlanApproach(topic, depth))}} :
       GapCall(covered)

SpecPlan == InitPlan /\ [][NextPlan]_vars

(***************************************************************************)
(* insertCitations(report, sources) as a function: a report of one         *)
(* sentence and a list of Sources are drawn, and the citations inserted.   *)
(***************************************************************************)
CiteSource(domain, title, id) == [domain |-> domain, title |-> title, citationId |-> id]

CiteSourceLists ==
  { << CiteSource("agency.gov", <<"annual", "report">>, 1) >>,
    << CiteSource("agency.gov", <<"annual", "report">>, 1),
       CiteSource("arxiv.org", <<"preprint">>, 2) >>,
    << CiteSource("agency.gov", <<"annual", "report">>, 1),
       CiteSource("agency.gov", <<"budget">>, 2) >>,
    << CiteSource("arxiv.org", <<"preprint">>, 0),
       CiteSource("agency.gov", <<"annual", "report">>, 1) >>,
    << CiteSource("stackoverflow.com", <<>>, 1),
       CiteSource("arxiv.org", <<"preprint">>, 2) >> }

CiteWords == {"agency.gov", "Agency.gov", "arxiv.org", "preprint", "[1]", "plain"}

\* words of a sentence of the report
MaxSentenceLen == 2

CiteSentences ==
  { [words |-> w, end |-> e] :
      w \in UNION {[1..n -> CiteWords] : n \in 1..MaxSentenceLen}, e \in {".", ""} }

InitCite ==
  /\ mode = "cite"
  /\ provider = "empty"
  /\ \E t \in Topics, d \in Depths : createSession(t, d)
  /\ pc = "created"
  /\ newSubagents = {}
  /\ turn = Handler
  /\ toolCalls = 0
  /\ planOut = EmptyMap
  /\ coveredAtEval = {}
  /\ extractionLog = NoExtractions
  /\ firstEnded = 0
  /\ inFlight = {}
  /\ pending = <<>>

\* the report and the Sources insertCitations is called with
CiteDraw ==
  /\ mode = "cite" /\ pc = "created"
  /\ \E ss \in CiteSourceLists, s \in CiteSentences :
       /\ sources' = ss
       /\ finalReport' = [made |-> TRUE, sentences |-> <<s>>]
  /\ pc' = "cite"
  /\ UNCHANGED <<sessionVars, envVars, awaitVars, ghostVars, memoryVars, citedReport, status,
                 iteration, subagents, newSubagents, turn, toolCalls>>

CiteCall ==
  /\ mode = "cite" /\ pc = "cite"
  /\ citedReport' = insertCitations(finalReport, sources)
  /\ pc' = "done"
  /\ UNCHANGED <<sessionVars, envVars, awaitVars, ghostVars, memoryVars, finalReport, status,
                 iteration, sources, subagents, newSubagents, turn, toolCalls>>

NextCite == CiteDraw \/ CiteCall

SpecCite == InitCite /\ [][NextCite]_vars

(***************************************************************************)
(* executeSubagent at the grain of its awaits: one Subagent of a fresh     *)
(* session, one step per request issued and per request returned.          *)
(***************************************************************************)
SearchRequest(query) == [kind |-> "search", of |-> query]
ExtractRequest(url) == [kind |-> "extract", of |-> url]

\* the `continue` tests of the item loop
Skipped(buf, item) ==
  \/ Some(sources, LAMBDA x : x.url = item.link)
  \/ Some(buf, LAMBDA x : x.url = item.link)
  \/ assessSourceQuality(item.link).score < 5

\* the items of `rest` up to the first one the loop suspends at
RECURSIVE SkipItems(_, _)
SkipItems(buf, rest) ==
  IF rest = <<>> THEN rest
  ELSE IF Skipped(buf, Head(rest)) THEN SkipItems(buf, Tail(rest))
  ELSE rest

InitFetch ==
  /\ mode = "fetch"
  /\ provider \in Providers
  /\ \E t \in Topics, d \in Depths : createSession(t, d)
  /\ pc = "created"
  /\ newSubagents = {}
  /\ turn = Handler
  /\ toolCalls = 0
  /\ planOut = EmptyMap
  /\ coveredAtEval = {}
  /\ extractionLog = NoExtractions
  /\ firstEnded = 0
  /\ inFlight = {}
  /\ pending = <<>>

\* the session's plan, one Subagent created, and executeSubagent entered
FetchSpawn(aspect) ==
  /\ mode = "fetch" /\ pc = "created"
  /\ savePlanToMemory(thinkPlanApproach(topic, depth))
  /\ subagents' = <<[createSubagent(aspect, FALSE) EXCEPT !.status = "searching"]>>
  /\ pc' = "query"
  /\ UNCHANGED <<sessionVars, envVars, awaitVars, ghostVars, reportVars, findings, gaps,
                 aspectsCovered, iterationHistory, status, iteration, sources,
                 newSubagents, turn, toolCalls>>

\* `for (const query of subagent.queries)`: await googleSearch(query, 5)
FetchSearchIssue ==
  /\ mode = "fetch" /\ pc = "query"
  /\ subagents[1].qi < Len(subagents[1].queries)
  /\ inFlight' = inFlight \cup {SearchRequest(subagents[1].queries[subagents[1].qi + 1])}
  /\ pc' = "search"
  /\ UNCHANGED <<sessionVars, envVars, ghostVars, reportVars, memoryVars, status,
                 iteration, sources, subagents, newSubagents, turn, toolCalls, pending>>

\* the search has returned or thrown; the item loop runs to its first fetch
FetchSearchReturn ==
  /\ mode = "fetch" /\ pc = "search"
  /\ LET sa == subagents[1]
         results == googleSearch(provider, sa.queries[sa.qi + 1])
         rest == IF results.error THEN <<>> ELSE SkipItems(sa.sources, results.items)
     IN  /\ inFlight' = inFlight \ {SearchRequest(sa.queries[sa.qi + 1])}
         /\ pending' = rest
         /\ IF rest = <<>>
            THEN /\ subagents' = [subagents EXCEPT ![1].qi = sa.qi + 1]
                 /\ pc' = "query"
            ELSE /\ pc' = "items"
                 /\ UNCHANGED subagents
  /\ UNCHANGED <<sessionVars, envVars, ghostVars, reportVars, memoryVars, status,
                 iteration, sources, newSubagents, turn, toolCalls>>

\* an item loop that requests every remaining qualifying page at once
FetchExtractIssueAll ==
  /\ mode = "fetch" /\ pc = "items"
  /\ inFlight' = inFlight \cup {ExtractRequest(pending[n].link) :
                                  n \in {m \in 1..Len(pending) :
                                           ~Skipped(subagents[1].sources, pending[m])}}
  /\ pc' = "extract"
  /\ UNCHANGED <<sessionVars, envVars, ghostVars, reportVars, memoryVars, status,
                 iteration, sources, subagents, newSubagents, turn, toolCalls, pending>>

\* await fetchFullPageContent(item.link, maxContentPerPage)
FetchExtractIssue ==
  /\ mode = "fetch" /\ pc = "items"
  /\ inFlight' = inFlight \cup {ExtractRequest(Head(pending).link)}
  /\ pc' = "extract"
  /\ UNCHANGED <<sessionVars, envVars, ghostVars, reportVars, memoryVars, status,
                 iteration, sources, subagents, newSubagents, turn, toolCalls, pending>>

\* the content has arrived: the push, then the loop runs to its next fetch
FetchExtractReturn ==
  /\ mode = "fetch" /\ pc = "extract"
  /\ LET sa == subagents[1]
         buf == ProcessItem(sa.sources, Head(pending), sa.aspect, MaxContentFor(sa))
         rest == SkipItems(buf, Tail(pending))
     IN  /\ inFlight' = inFlight \ {ExtractRequest(Head(pending).link)}
         /\ pending' = rest
         /\ IF rest = <<>>
            THEN /\ subagents' = [subagents EXCEPT ![1].sources = buf,
                                                    ![1].qi = sa.qi + 1]
                 /\ pc' = "query"
            ELSE /\ subagents' = [subagents EXCEPT ![1].sources = buf]
                 /\ pc' = "items"
  /\ UNCHANGED <<sessionVars, envVars, ghostVars, reportVars, memoryVars, status,
                 iteration, sources, newSubagents, turn, toolCalls>>

\* Phases 2 and 3 of executeSubagent
FetchThink ==
  /\ mode = "fetch" /\ pc = "query"
  /\ subagents[1].qi = Len(subagents[1].queries)
  /\ subagents' = [subagents EXCEPT ![1].status = "completed",
                                    ![1].findings = subagentThinkEvaluate(subagents[1]),
                                    ![1].ended = TRUE]
  /\ pc' = "done"
  /\ UNCHANGED <<sessionVars, envVars, awaitVars, ghostVars, reportVars, memoryVars,
                 status, iteration, sources, newSubagents, turn, toolCalls>>

NextFetch ==
  \/ \E aspect \in {thinkPlanApproach(topic, depth)[i] :
                       i \in 1..Len(thinkPlanApproach(topic, depth))} :
       FetchSpawn(aspect)
  \/ FetchSearchIssue
  \/ FetchSearchReturn
  \/ FetchExtractIssue
  \/ FetchExtractReturn
  \/ FetchThink

SpecFetch == InitFetch /\ [][NextFetch]_vars

(***************************************************************************)
(* Properties.                                                             *)
(***************************************************************************)
IsPrefix(s, t) == Len(s) <= Len(t) /\ SubSeq(t, 1, Len(s)) = s

Range(s) == {s[i] : i \in 1..Len(s)}

Urls(ss) == {ss[i].url : i \in 1..Len(ss)}

\* the aspect counts of the README's Depth Levels table
AspectCount(d) == IF d = "basic" THEN 2 ELSE IF d = "moderate" THEN 5 ELSE 11

\* the iteration caps of the README's Depth Levels table
IterationCap(d) == IF d = "basic" THEN 2 ELSE IF d = "moderate" THEN 3 ELSE 4

\* C1: plan(topic, depth) returns exactly 2, 5 and 11 aspects for basic,
\* moderate and comprehensive, and for one topic the basic list is a prefix
\* of the moderate list, which is a prefix of the comprehensive list.
C1_PlanTiers ==
  /\ \A d \in DOMAIN planOut : Len(planOut[d]) = AspectCount(d)
  /\ {"basic", "moderate"} \subseteq DOMAIN planOut
       => IsPrefix(planOut["basic"], planOut["moderate"])
  /\ {"moderate", "comprehensive"} \subseteq DOMAIN planOut
       => IsPrefix(planOut["moderate"], planOut["comprehensive"])

C1_AllTiersPlanned ==
  /\ DOMAIN planOut = Depths
  /\ Len(topic) = MaxTopicLen
  /\ topic[1] = "Missing"

\* the status changes the claimed sequence of a run allows
StatusOrder ==
  { <<"planning", "researching">>, <<"researching", "evaluating">>,
    <<"evaluating", "researching">>, <<"evaluating", "synthesizing">>,
    <<"synthesizing", "citing">>, <<"citing", "completed">> }

RunInProgress == mode = "run" /\ pc # "done"

\* C2 (as stated): during a run the status moves planning -> researching ->
\* evaluating -> (researching -> evaluating)* -> synthesizing -> citing ->
\* completed; researching is always followed by evaluating and synthesizing
\* is entered only from evaluating.
C2_StatusSequence ==
  [][(RunInProgress /\ status' # status) => <<status, status'>> \in StatusOrder]_vars

\* C2 (amended): the same sequence, except that a researching phase for which
\* no aspect is left to research is followed by synthesizing directly.
C2_StatusSequenceEarlyExit ==
  [][(RunInProgress /\ status' # status) =>
       \/ <<status, status'>> \in StatusOrder
       \/ /\ <<status, status'>> = <<"researching", "synthesizing">>
          /\ getAspectsForIteration(thinkPlanApproach(topic, depth),
                                    aspectsCovered, gaps, iteration) = <<>>]_vars

C2_EarlyExitTaken ==
  /\ mode = "run" /\ status = "completed"
  /\ Last(iterationHistory).decision = "continue"
  /\ Len(iterationHistory) >= 2

\* C3: evaluate exits when (a) the score reaches the tier's threshold and the
\* Sources number at least min-per-aspect times the aspects researched; else
\* (b) when the iteration is the last one allowed; else (c) when no gap was
\* found; else (d) it continues.  It continues exactly when none of (a), (b),
\* (c) holds, and the reasoning names the first of them that holds.
C3_DecisionPriority ==
  \A k \in 1..Len(iterationHistory) :
    LET r == iterationHistory[k]
        a == /\ r.coverageScore >= COVERAGE_THRESHOLDS(depth)
             /\ r.sourcesFound >= MIN_SOURCES_PER_ASPECT(depth) * Len(r.aspectsResearched)
        b == r.iteration >= maxIterations - 1
        c == r.gaps = <<>>
    IN  /\ r.decision \in {"exit", "continue"}
        /\ (r.decision = "continue") <=> (~a /\ ~b /\ ~c)
        /\ a => r.reasoning[1] = "meets threshold"
        /\ ~a /\ b => r.reasoning[1] = "Max iterations reached"
        /\ ~a /\ ~b /\ c => r.reasoning[1] = "No significant gaps"
        /\ ~a /\ ~b /\ ~c => r.reasoning[1] = "below threshold"

C3_ContinueThenNoGaps ==
  /\ Len(iterationHistory) >= 2
  /\ iterationHistory[1].reasoning[1] = "below threshold"
  /\ Last(iterationHistory).reasoning[1] = "No significant gaps"
  /\ Last(iterationHistory).iteration < maxIterations - 1
  /\ Last(iterationHistory).coverageScore < COVERAGE_THRESHOLDS(depth)

\* C4: the coverage score is an integer between 0 and 100 in every reachable
\* state of a session, both as recorded by an evaluation and as an evaluation
\* of the current state would compute it.
C4_ScoreRange ==
  /\ calculateCoverageScore(sources, aspectsCovered, topic, depth) \in 0..100
  /\ \A k \in 1..Len(iterationHistory) : iterationHistory[k].coverageScore \in 0..100

C4_LimitReached ==
  /\ iterationHistory # <<>>
  /\ CountTier(sources, "primary") > 5
  /\ Last(iterationHistory).coverageScore >= 75

RECURSIVE Buffers(_)
Buffers(sas) == IF sas = <<>> THEN <<>> ELSE Head(sas).sources \o Buffers(Tail(sas))

\* the Subagent results a step merges into the session, in merge order
Incoming ==
  IF iterationHistory' # iterationHistory THEN Buffers(subagents)
  ELSE IF turn.who = "tool" /\ turn' = Free /\ subagents[turn.i].status = "completed"
  THEN subagents[turn.i].sources
  ELSE <<>>

FirstWithUrl(ss, u) == ss[CHOOSE i \in 1..Len(ss) : ss[i].url = u /\ \A j \in 1..(i - 1) : ss[j].url # u]

\* the Source with URL u a merge has to keep: the one encountered first
FirstWritten(u) ==
  IF u \in Urls(sources) THEN FirstWithUrl(sources, u) ELSE FirstWithUrl(Incoming, u)

\* C5: merging Subagent results is first-write-wins and idempotent: of the
\* Sources with one URL that the merged results and the session hold, the
\* session contains after the merge exactly one, the one encountered first,
\* and merging the same results again changes nothing.
C5_MergeFirstWriteWins ==
  [][Incoming # <<>> =>
       /\ \A u \in Urls(Incoming) :
            /\ Cardinality({k \in 1..Len(sources') : sources'[k].url = u}) = 1
            /\ FirstWritten(u) \in Range(sources')
       /\ MergeSources(sources', Incoming) = sources']_vars

\* C6: after any sequence of research passes, run_subagent and add_source
\* calls the session holds at most one Source per URL.
C6_OneSourcePerUrl ==
  \A i, j \in 1..Len(sources) : sources[i].url = sources[j].url => i = j

EvaluationStep == iterationHistory' # iterationHistory

\* nothing was added to the session since its previous evaluation
NothingAdded ==
  /\ EvaluationStep
  /\ iterationHistory # <<>>
  /\ Len(sources') = Last(iterationHistory).sourcesFound
  /\ aspectsCovered' = coveredAtEval

\* C7 (as stated): an evaluation of a session to which no Sources and no
\* aspects were added since the previous evaluation yields the same coverage
\* score and the same decision as that evaluation.
C7_SameScoreAndDecision ==
  [][NothingAdded =>
       /\ Last(iterationHistory').coverageScore = Last(iterationHistory).coverageScore
       /\ Last(iterationHistory').decision = Last(iterationHistory).decision]_vars

\* C7 (amended): such an evaluation yields the same coverage score, and the
\* same decision when in addition no further Subagent has completed and the
\* iteration counter has not moved since the previous evaluation.
C7_SameScoreAndDecisionUnchanged ==
  [][NothingAdded =>
       /\ Last(iterationHistory').coverageScore = Last(iterationHistory).coverageScore
       /\ ( /\ Len(Last(iterationHistory').aspectsResearched)
                 = Len(Last(iterationHistory).aspectsResearched)
            /\ iteration = Last(iterationHistory).iteration )
            => Last(iterationHistory').decision = Last(iterationHistory).decision]_vars

C7_EvaluatedTwiceUnchanged ==
  /\ mode = "manual"
  /\ Len(subagents) = 1 /\ subagents[1].status = "completed"
  /\ Len(iterationHistory) = 2
  /\ iterationHistory[1].aspectsResearched = iterationHistory[2].aspectsResearched
  /\ Len(iterationHistory[1].aspectsResearched) = 1
  /\ iterationHistory[1].sourcesFound = iterationHistory[2].sourcesFound
  /\ iterationHistory[1].sourcesFound >= 1

CitationStep ==
  \/ mode = "run" /\ pc = "cite" /\ pc' = "complete"
  \/ pc = "manual" /\ turn = Handler /\ turn' = Free

EraseIds(ss) == [i \in 1..Len(ss) |-> [ss[i] EXCEPT !.citationId = 0]]

\* the Sources in the order of their citation ids
ById(ss) == [k \in 1..Len(ss) |-> CHOOSE x \in Range(ss) : x.citationId = k]

\* C8: after citation processing the citation ids of the session's Sources
\* are exactly 1..N, N the number of distinct Sources, each id used once; the
\* quality score does not increase with the id, and Sources of equal score
\* keep the order they had before the sort.
C8_CitationIds ==
  [][CitationStep =>
       /\ Len(sources') = Cardinality(Urls(sources'))
       /\ \A k \in 1..Len(sources') :
            Cardinality({i \in 1..Len(sources') : sources'[i].citationId = k}) = 1
       /\ \A i \in 1..Len(sources') : sources'[i].citationId \in 1..Len(sources')
       /\ \A i, j \in 1..Len(sources') :
            sources'[i].citationId < sources'[j].citationId
              => sources'[i].qualityScore >= sources'[j].qualityScore
       /\ \A v \in {sources[i].qualityScore : i \in 1..Len(sources)} :
            EraseIds(Filter(ById(sources'), LAMBDA x : x.qualityScore = v))
              = EraseIds(Filter(sources, LAMBDA x : x.qualityScore = v))]_vars

\* passes a run has started: one per recorded evaluation, and the one under way
PassesStarted ==
  Len(iterationHistory) + (IF pc \in {"exec", "await"} THEN 1 ELSE 0)

RunBounded ==
  (mode = "run" /\ toolCalls = 0) =>
    /\ PassesStarted <= IterationCap(depth)
    /\ Len(iterationHistory) <= IterationCap(depth)
    /\ iteration < IterationCap(depth)

\* C9: a run performs no more research passes and records no more
\* IterationResults than the cap of its tier (2, 3, 4), and neither the cap
\* nor the depth of a session ever changes.
C9_IterationCap ==
  [][/\ RunBounded /\ RunBounded'
     /\ maxIterations = IterationCap(depth)
     /\ maxIterations' = maxIterations
     /\ depth' = depth]_vars

C9_CapReached ==
  /\ mode = "run" /\ pc = "done" /\ toolCalls = 0
  /\ depth = "comprehensive"
  /\ Len(iterationHistory) = IterationCap(depth)

\* C10: under every interleaving of the Subagents of a pass, the merge and
\* evaluation of the pass start only when every Subagent spawned in the pass
\* is completed or failed.
C10_FanInBarrier ==
  [][(RunInProgress /\ (EvaluationStep \/ (status' = "evaluating" /\ status # "evaluating"))) =>
       /\ newSubagents # {}
       /\ \A i \in newSubagents : subagents[i].status \in {"completed", "failed"}]_vars

C10_PassEvaluated ==
  /\ RunInProgress
  /\ status = "evaluating"
  /\ Cardinality(newSubagents) >= 3
  /\ Len(subagents) > Cardinality(newSubagents)
  /\ \A i \in newSubagents : subagents[i].status = "completed"

\* a google_research run of the basic tier on topic "X" has returned
BasicRunEnded ==
  /\ mode = "run" /\ pc = "done" /\ toolCalls = 0
  /\ depth = "basic" /\ topic = <<"X">>

ScenarioAOutcome ==
  /\ iterationHistory # <<>>
  /\ Last(iterationHistory).coverageScore >= 60
  /\ Cardinality(aspectsCovered) = 2
  /\ \E k \in 1..Len(iterationHistory) : k <= 2 /\ iterationHistory[k].decision = "exit"

\* C11 (as stated): scenario A.  A basic run against a provider that returns
\* one .gov result per query, each page extracted to 5,000 characters, ends
\* with a coverage score of at least 60, exactly 2 aspects covered and an
\* exit decision recorded no later than the second iteration.
C11_ScenarioA ==
  (BasicRunEnded /\ provider \in {"gov", "govone"}) => ScenarioAOutcome

\* C11 (amended): the same outcome when the one .gov result is a different
\* page for each distinct query.
C11_ScenarioADistinctPages ==
  (BasicRunEnded /\ provider = "gov") => ScenarioAOutcome

C11_ScenarioARun ==
  /\ BasicRunEnded /\ provider = "gov"
  /\ status = "completed"
  /\ Len(iterationHistory) = 2

\* a google_research run has returned and no tool has touched its session
RunEnded == mode = "run" /\ pc = "done" /\ toolCalls = 0

\* C12: scenario B.  Against a provider that answers every query with an
\* empty result list the session is completed with 0 Sources, the history
\* holds one IterationResult for each iteration the tier allows, and the
\* last one gives the "Max iterations reached" reasoning.
C12_ScenarioB ==
  (RunEnded /\ provider = "empty") =>
    /\ status = "completed"
    /\ sources = <<>>
    /\ Len(iterationHistory) = IterationCap(depth)
    /\ \A k \in 1..Len(iterationHistory) : iterationHistory[k].iteration = k - 1
    /\ Last(iterationHistory).reasoning[1] = "Max iterations reached"

C12_ScenarioBRun ==
  /\ RunEnded /\ provider = "empty"
  /\ depth = "comprehensive"
  /\ status = "completed"
  /\ Len(subagents) >= 4

\* C13: when every query of a run fails or returns nothing, so that the
\* session ends with zero Sources, every IterationResult of the run records
\* a coverage score of 0.
C13_ZeroSourcesZeroScore ==
  (RunEnded /\ sources = <<>>) =>
    \A k \in 1..Len(iterationHistory) : iterationHistory[k].coverageScore = 0

IsMarker(w) == \E n \in 1..2 : w = Marker(n)

MarkerCount(sentence) == Cardinality({k \in 1..Len(sentence.words) : IsMarker(sentence.words[k])})

\* C14: scenario C.  After citation processing every sentence of the report
\* that contains the domain of a cited Source carries exactly one marker
\* [n], at its end, with n the citation id of that Source; a sentence that
\* matches no Source, by domain or by title prefix, receives no marker.
C14_ScenarioC ==
  citedReport.made =>
    \A i \in 1..Len(finalReport.sentences) :
      LET before == finalReport.sentences[i]
          after == citedReport.sentences[i]
      IN  /\ \A k \in 1..Len(sources) :
               ( /\ sources[k].citationId # 0
                 /\ Includes(Lower(before.words), <<sources[k].domain>>) )
               => /\ MarkerCount(after) = 1
                  /\ Last(after.words) = Marker(sources[k].citationId)
          /\ (\A k \in 1..Len(sources) : ~SentenceMatches(before, sources[k]))
               => after = before

\* the evaluation has ended the research loop: no pass is started after it
LoopLeft == pc \in {"synth", "cite", "complete", "done"}

ScoreSufficient(r) == r.coverageScore >= COVERAGE_THRESHOLDS(depth)

SourcesSufficient(r) ==
  r.sourcesFound >= MIN_SOURCES_PER_ASPECT(depth) * Len(r.aspectsResearched)

C16_FatalWithoutCredentials ==
  provider = "unconfigured" => status # "completed"
\* the status steps executeSubagent takes
SubagentStatusSteps ==
  {<<"pending", "searching">>, <<"searching", "evaluating">>,
   <<"evaluating", "completed">>}

\* some query of Subagent sa is refused by the provider, and some is answered
HasFailedQuery(sa) ==
  /\ \E k \in 1..Len(sa.queries) : googleSearch(provider, sa.queries[k]).error
  /\ \E k \in 1..Len(sa.queries) : ~googleSearch(provider, sa.queries[k]).error

\* C17: every Subagent starts pending and its status only ever moves one step
\* along pending -> searching -> evaluating -> completed; it is never failed,
\* whatever its queries meet, and a completed Subagent keeps its status.
C17_SubagentLifecycle ==
  [][/\ Len(subagents') >= Len(subagents)
     /\ \A i \in 1..Len(subagents) :
          \/ subagents'[i].status = subagents[i].status
          \/ <<subagents[i].status, subagents'[i].status>> \in SubagentStatusSteps
     /\ \A i \in (Len(subagents) + 1)..Len(subagents') :
          subagents'[i].status = "pending"]_vars

\* C17 (witness): a Subagent has completed all its queries although the
\* provider refused at least one of them.
C17_CompletedDespiteFailures ==
  \E i \in 1..Len(subagents) :
    /\ subagents[i].status = "completed"
    /\ subagents[i].qi = Len(subagents[i].queries)
    /\ HasFailedQuery(subagents[i])
\* Subagent i has just been through query k, which the provider refused
FailedQueryStep(i) ==
  /\ subagents'[i].qi = subagents[i].qi + 1
  /\ googleSearch(provider, subagents[i].queries[subagents[i].qi + 1]).error

\* C18: a search failure on one query of a Subagent leaves its buffer as it
\* was (nothing added, nothing lost); a Subagent passes to evaluating only
\* after every one of its queries has been issued; and an automated run
\* that has ended has status completed.
C18_ProviderErrorContained ==
  [][/\ \A i \in 1..Len(subagents) :
          FailedQueryStep(i) => subagents'[i].sources = subagents[i].sources
     /\ \A i \in 1..Len(subagents') :
          subagents'[i].status \in {"evaluating", "completed"}
            => subagents'[i].qi = Len(subagents'[i].queries)
     /\ (mode' = "run" /\ pc' = "done") => status' = "completed"]_vars

\* C18 (witness): a completed run in which a Subagent buffered a Source from
\* its first query, had a later query refused, issued the queries after it,
\* and still holds the Source.
C18_ErrorAfterBufferedSource ==
  /\ mode = "run" /\ status = "completed"
  /\ \E i \in 1..Len(subagents) :
       LET sa == subagents[i]
       IN  /\ sa.status = "completed" /\ sa.qi = Len(sa.queries)
           /\ ~googleSearch(provider, sa.queries[1]).error
           /\ \E k \in 2..(Len(sa.queries) - 1) :
                googleSearch(provider, sa.queries[k]).error
           /\ sa.sources # <<>>
           /\ sa.sources[1].url.path = sa.queries[1]
\* a step of executeSubagent: the record of an existing Subagent changes
SubagentStep ==
  \E i \in 1..Len(subagents) : subagents'[i] # subagents[i]

\* what a Subagent is created with
Assignment(sa) == <<sa.aspect, sa.queries, sa.manual>>

\* C19: a step of an executing Subagent changes the record of that Subagent
\* only, and in it only the status, the Source buffer, the findings and the
\* end time; the session's Sources, the MemoryModule, the iteration counter
\* and the session status are the same after the step.
C19_SubagentFrame ==
  [][SubagentStep =>
       /\ Len(subagents') = Len(subagents)
       /\ \E i \in 1..Len(subagents) :
            /\ \A j \in 1..Len(subagents) :
                 j # i => subagents'[j] = subagents[j]
            /\ Assignment(subagents'[i]) = Assignment(subagents[i])
       /\ UNCHANGED <<sources, memoryVars, iteration, status>>]_vars

\* C19 (witness): before the barrier of an automated run, one Subagent has
\* completed with Sources in its buffer while another is still searching,
\* and the session has no Source yet.
C19_BufferedBeforeBarrier ==
  /\ mode = "run" /\ pc = "await" /\ sources = <<>>
  /\ \E i, j \in newSubagents :
       /\ subagents[i].status = "completed" /\ subagents[i].sources # <<>>
       /\ subagents[i].findings # <<>>
       /\ subagents[j].status = "searching" /\ subagents[j].qi >= 1
\* C20: the iteration history is append-only: after any step of any session
\* operation the earlier history is a prefix of the later one, so an
\* IterationResult is never removed, moved or changed in any field.
C20_HistoryAppendOnly ==
  [][IsPrefix(iterationHistory, iterationHistory')]_vars

\* C20 (witness): the history holds three or more IterationResults, the last
\* appended by a tool call made after the automated run had completed.
C20_HistoryGrownAfterRun ==
  /\ mode = "run" /\ pc = "done" /\ toolCalls > 0
  /\ Len(iterationHistory) >= 3
  /\ Len(iterationHistory) > maxIterations
\* C21: the set of covered aspects only grows: every step of every session
\* operation (research pass, evaluate_coverage, run_subagent, add_source,
\* complete) leaves each covered aspect covered.
C21_CoveredOnlyGrows ==
  [][aspectsCovered \subseteq aspectsCovered']_vars

\* C21 (witness): a session whose covered set was extended by run_subagent
\* calls for two aspects, one of them outside the plan, and then evaluated.
C21_CoveredByToolsAndEvaluation ==
  /\ mode = "manual" /\ iterationHistory # <<>>
  /\ {<<"other">>, CoreAspects(topic)[1]} \subseteq aspectsCovered
\* the aspects of the Subagents a step of the research loop has created
Chosen ==
  [k \in 1..(Len(subagents') - Len(subagents)) |->
     subagents'[Len(subagents) + k].aspect]

\* the planned aspects not covered yet, in plan order
Uncovered == SelectSeq(plan, LAMBDA a : a \notin aspectsCovered)

\* the aspect each entry of the current gap list names, in gap-list order
NamedByGaps == [i \in 1..Len(gaps) |-> ParseGapAspect(gaps[i])]

\* a pass of the automated run creates its Subagents in this step
PassSpawned == mode = "run" /\ pc = "loop" /\ Len(subagents') > Len(subagents)

CoverageGaps == SelectSeq(gaps, LAMBDA g : g[1] \in {"Missing", "Insufficient"})

NamedByCoverageGaps ==
  [i \in 1..Len(CoverageGaps) |-> ParseGapAspect(CoverageGaps[i])]

Owned(ss, aspect) == {i \in 1..Len(ss) : ss[i].aspect = aspect}

\* the gap entries the rule gives for one planned aspect
ExpectedGaps(ss, covered, aspect) ==
  LET owned == Owned(ss, aspect)
      missing == aspect \notin covered
      insufficient ==
        aspect \in covered /\ Cardinality(owned) < MIN_SOURCES_PER_ASPECT(depth)
      noPrimary ==
        /\ aspect \in covered /\ depth = "comprehensive"
        /\ \A i \in owned : ss[i].qualityTier # "primary"
  IN  (IF missing THEN << <<"Missing", "coverage", ":">> \o aspect >> ELSE <<>>)
      \o (IF insufficient
          THEN << <<"Insufficient", "sources", "for", ":">> \o aspect >> ELSE <<>>)
      \o (IF noPrimary
          THEN << <<"No", "primary", "sources", "for", ":">> \o aspect >> ELSE <<>>)

\* the entries for the first n planned aspects, in plan order
RECURSIVE ExpectedGapList(_, _, _)
ExpectedGapList(ss, covered, n) ==
  IF n = 0 THEN <<>>
  ELSE ExpectedGapList(ss, covered, n - 1) \o ExpectedGaps(ss, covered, plan[n])

\* C23: the gap list an evaluation produces holds, for each planned aspect in
\* plan order, a "Missing coverage" entry iff the aspect is uncovered, an
\* "Insufficient sources" entry iff it is covered with fewer Sources of its
\* own than the minimum of the depth, and a "No primary sources" entry iff it
\* is covered, the depth is comprehensive and none of its Sources is primary;
\* it holds nothing else, and the IterationResult records the same list.
C23_GapIdentification ==
  [][EvaluationStep =>
       /\ gaps' = ExpectedGapList(sources', aspectsCovered', Len(plan))
       /\ Last(iterationHistory').gaps = gaps']_vars

\* C23 (witness): an evaluation has produced a gap list with entries of all
\* three kinds.
C23_AllGapKinds ==
  /\ iterationHistory # <<>>
  /\ gaps = Last(iterationHistory).gaps
  /\ \A kind \in {"Missing", "Insufficient", "No"} :
       \E i \in 1..Len(gaps) : gaps[i][1] = kind
\* the planned aspect the i-th entry of a gap list was emitted for, when no
\* Source is held and nothing (one entry per aspect) or everything (one
\* entry per aspect, two at depth comprehensive) is covered
EmittedFor(i) ==
  LET planned == thinkPlanApproach(topic, depth)
  IN  IF aspectsCovered # {} /\ depth = "comprehensive"
      THEN planned[(i + 1) \div 2] ELSE planned[i]

RECURSIVE FindingsOf(_, _)
FindingsOf(aspect, n) ==
  IF n = 0 THEN <<>>
  ELSE FindingsOf(aspect, n - 1)
       \o (IF subagents[n].aspect = aspect THEN subagents[n].findings ELSE <<>>)

\* C25 (counterexample): across a whole automated run the findings of each
\* Subagent are appended under its aspect exactly once: when the run has
\* ended, the findings list of an aspect is the concatenation, without
\* repetition, of the findings of the Subagents that researched it.
C25_FindingsOncePerSubagent ==
  RunEnded =>
    \A i \in 1..Len(subagents) :
      MapGet(findings, subagents[i].aspect)
        = FindingsOf(subagents[i].aspect, Len(subagents))
\* C26 (counterexample): the findings of an aspect are accumulated and never
\* lost: after any step of a session operation (research pass,
\* evaluate_coverage, run_subagent) the findings list stored for an aspect
\* has its earlier value as a prefix.
C26_FindingsAccumulate ==
  [][\A a \in DOMAIN findings :
       a \in DOMAIN findings' /\ IsPrefix(findings[a], findings'[a])]_vars
\* the requirement of stopping branch (a) with each aspect counted once
SourcesSufficientDistinct(r) ==
  r.sourcesFound
    >= MIN_SOURCES_PER_ASPECT(depth) * Cardinality(Range(r.aspectsResearched))

\* C27 (counterexample): stopping branch (a) requires min-sources-per-aspect
\* times the number of distinct aspects researched so far: an evaluation
\* whose score reaches the threshold with that many Sources exits by branch
\* (a), however often an aspect was researched.
C27_RequirementCountsAspectOnce ==
  \A k \in 1..Len(iterationHistory) :
    (ScoreSufficient(iterationHistory[k])
       /\ SourcesSufficientDistinct(iterationHistory[k]))
      => iterationHistory[k].reasoning[1] = "meets threshold"
\* a Subagent buffer, as a set of URLs
BufferUrls(sa) == {sa.sources[k].url : k \in 1..Len(sa.sources)}

\* the Sources Subagent i has added to its buffer in this step
Accepted(i) ==
  {subagents'[i].sources[k] :
     k \in (Len(subagents[i].sources) + 1)..Len(subagents'[i].sources)}

C29_AtMostOneMarkerAdded ==
  (mode = "cite" /\ citedReport.made) =>
    \A i \in 1..Len(finalReport.sentences) :
      LET original == finalReport.sentences[i]
          cited == citedReport.sentences[i]
      IN  /\ MarkerCount(cited) <= MarkerCount(original) + 1
          /\ \/ cited = original
             \/ \E n \in 1..2 :
                  cited = [original EXCEPT !.words = Append(@, Marker(n))]

\* C29 (witness): a sentence that matches two cited Sources has been
\* processed and has gained exactly one marker, that of the first of them.
C29_TwoMatchesOneMarker ==
  /\ mode = "cite" /\ citedReport.made
  /\ Len(sources) = 2
  /\ \A k \in 1..2 : SentenceMatches(finalReport.sentences[1], sources[k])
  /\ MarkerCount(finalReport.sentences[1]) = 0
  /\ MarkerCount(citedReport.sentences[1]) = 1
  /\ Last(citedReport.sentences[1].words) = Marker(sources[1].citationId)
(***************************************************************************)
(* C30: an extraction failure is not retried: once the extraction of a URL *)
(* has come back with at most 100 characters, no later query, Subagent or  *)
(* iteration of the session requests the extraction of that URL again.     *)
(***************************************************************************)
C30_FailedExtractionNotRetried == extractionLog.again = {}
(***************************************************************************)
(* C31: within one pass, the Subagents' Sources are merged in the order in *)
(* which the Subagents completed: when the Subagent of the pass that       *)
(* completed first buffered a Source for a URL the session does not hold,  *)
(* the evaluation keeps that Subagent's Source for the URL.                *)
(***************************************************************************)
Holders(u) == {i \in 1..Len(subagents) : \E n \in 1..Len(subagents[i].sources) :
                                           subagents[i].sources[n].url = u}

KeptFrom(k, i) == \E n \in 1..Len(subagents[i].sources) :
                    sources'[k] = subagents[i].sources[n]

C31_MergeFollowsCompletion ==
  [][(mode = "run" /\ iterationHistory' # iterationHistory /\ firstEnded # 0)
       => \A k \in (Len(sources) + 1)..Len(sources') :
            firstEnded \in Holders(sources'[k].url) => KeptFrom(k, firstEnded)]_vars

\* C31 as the code has it: the merge walks session.subagents in the order of
\* creation, so a Source the evaluation adds is the one buffered by the
\* Subagent created first among those that buffered its URL
C31_MergeFollowsCreation ==
  [][iterationHistory' # iterationHistory
       => \A k \in (Len(sources) + 1)..Len(sources') :
            LET holders == Holders(sources'[k].url)
            IN  /\ holders # {}
                /\ KeptFrom(k, CHOOSE i \in holders : \A j \in holders : i <= j)]_vars

\* a pass whose later-created Subagent completed first, both having buffered
\* the same URL, has been merged: the Source kept is the earlier-created one's
C31_LaterCreatedCompletedFirst ==
  /\ mode = "run" /\ firstEnded # 0 /\ pc # "await"
  /\ \E i \in newSubagents, k \in 1..Len(sources) :
       /\ i < firstEnded
       /\ {i, firstEnded} \subseteq Holders(sources[k].url)
       /\ sources[k].aspect = subagents[i].aspect
       /\ subagents[i].aspect # subagents[firstEnded].aspect
(***************************************************************************)
(* C32: within one Subagent the queries are issued one after another,      *)
(* while the extraction requests for the qualifying URLs of one query are  *)
(* issued concurrently: when the first of them returns, the request for    *)
(* every other URL of the query that qualifies is already in flight.       *)
(***************************************************************************)
Qualifying(n) ==
  /\ ~Skipped(subagents[1].sources, pending[n])
  /\ \A m \in 1..(n - 1) : pending[m].link # pending[n].link

C32_ExtractionsConcurrent ==
  [][(mode = "fetch" /\ pc = "extract" /\ pc' # "extract")
       => \A n \in 2..Len(pending) :
            Qualifying(n) => ExtractRequest(pending[n].link) \in inFlight]_vars

\* C32 as the code has it: every request of a Subagent is awaited before the
\* next is issued, so a Subagent has at most one request in flight, a search
\* or an extraction
C32_OneRequestInFlight == Cardinality(inFlight) <= 1

\* a query with two qualifying URLs: the first page is buffered and the
\* request for the second is in flight alone
C32_SecondExtractionAlone ==
  /\ mode = "fetch" /\ pc = "extract"
  /\ subagents[1].qi = 0
  /\ Len(subagents[1].sources) = 1
  /\ inFlight = {ExtractRequest(Head(pending).link)}
(***************************************************************************)
(* C33: session-level Sources and covered aspects are taken only from      *)
(* Subagents in a terminal state: no evaluation adds to the session a      *)
(* Source that only Subagents still pending, searching or evaluating have  *)
(* buffered, nor marks covered an aspect that only such Subagents hold.    *)
(***************************************************************************)
Settled == {i \in 1..Len(subagents) : Terminal(subagents[i])}

C33_OnlyTerminalSubagentsMerged ==
  [][iterationHistory' # iterationHistory
       => /\ \A k \in (Len(sources) + 1)..Len(sources') :
               \E i \in Settled : KeptFrom(k, i)
          /\ \A a \in aspectsCovered' \ aspectsCovered :
               \E i \in Settled : subagents[i].aspect = a]_vars
(***************************************************************************)
(* C34: when a run reaches completed, the last IterationResult of the      *)
(* iteration history has decision exit and every earlier IterationResult   *)
(* of the run has decision continue.                                       *)
(***************************************************************************)
RunJustCompleted == mode = "run" /\ status = "completed" /\ toolCalls = 0

C34_LastDecisionExit ==
  RunJustCompleted
    => /\ iterationHistory # <<>>
       /\ Last(iterationHistory).decision = "exit"
       /\ \A k \in 1..(Len(iterationHistory) - 1) :
            iterationHistory[k].decision = "continue"
\* C34 as the code has it: the results before the last have decision
\* continue, and the last has decision exit unless the loop ended because no
\* aspect was left to research
C34_LastDecisionExitOrNothingLeft ==
  RunJustCompleted
    => /\ iterationHistory # <<>>
       /\ \A k \in 1..(Len(iterationHistory) - 1) :
            iterationHistory[k].decision = "continue"
       /\ \/ Last(iterationHistory).decision = "exit"
          \/ getAspectsForIteration(plan, aspectsCovered, gaps, iteration) = <<>>

\* a run completed after an evaluation that decided to continue
C34_CompletedAfterContinue ==
  /\ RunJustCompleted
  /\ iterationHistory # <<>>
  /\ Last(iterationHistory).decision = "continue"
  /\ iteration < maxIterations
(***************************************************************************)
(* C35: when a run reaches completed, the iteration count printed in the   *)
(* report (session.iteration + 1) equals the number of IterationResults in *)
(* the history, and the results carry the indices 0, 1, 2, ... in order.   *)
(***************************************************************************)
C35_ReportedIterationsMatchHistory ==
  RunJustCompleted
    => /\ finalReport.made
       /\ finalReport.iterations = Len(iterationHistory)
       /\ \A k \in 1..Len(iterationHistory) : iterationHistory[k].iteration = k - 1
(***************************************************************************)
(* C36: no planned aspect is starved: in a run that ends because the       *)
(* iteration cap was reached, every planned aspect has been assigned to at *)
(* least one Subagent.                                                     *)
(***************************************************************************)
C36_NoAspectStarved ==
  (/\ RunJustCompleted
   /\ iterationHistory # <<>>
   /\ Last(iterationHistory).reasoning[1] = "Max iterations reached")
    => \A n \in 1..Len(plan) : \E i \in 1..Len(subagents) : subagents[i].aspect = plan[n]
(***************************************************************************)
(* C37: the coverage scores recorded in a session's successive             *)
(* IterationResults are non-decreasing, and so are the recorded source     *)
(* counts, over any sequence of passes, run_subagent, add_source and       *)
(* evaluate_coverage operations.                                           *)
(***************************************************************************)
C37_ScoresAndCountsNonDecreasing ==
  \A k \in 1..(Len(iterationHistory) - 1) :
    /\ iterationHistory[k].coverageScore <= iterationHistory[k + 1].coverageScore
    /\ iterationHistory[k].sourcesFound <= iterationHistory[k + 1].sourcesFound

\* two evaluations of a session with tool calls in between, the second with
\* a higher score and more Sources
C37_RaisedBetweenEvaluations ==
  /\ mode = "manual"
  /\ \E k \in 1..(Len(iterationHistory) - 1) :
       /\ iterationHistory[k].coverageScore < iterationHistory[k + 1].coverageScore
       /\ iterationHistory[k].sourcesFound < iterationHistory[k + 1].sourcesFound
       /\ iterationHistory[k].sourcesFound > 0
(***************************************************************************)
(* C38: the set of covered aspects is always a subset of the session's     *)
(* planned aspects, so the aspect term of the coverage score never exceeds *)
(* 50, after any sequence of session operations, run_subagent with an      *)
(* aspect chosen by the caller included.                                   *)
(***************************************************************************)
C38_CoveredWithinPlan ==
  /\ aspectsCovered \subseteq {plan[n] : n \in 1..Len(plan)}
  /\ Cardinality(aspectsCovered) * 50 <= 50 * Len(thinkPlanApproach(topic, depth))
(***************************************************************************)
(* C39: every run terminates: when every search and fetch call returns,    *)
(* a session started by run(session) eventually reaches status completed   *)
(* with a final report, for every depth tier and every pattern of provider *)
(* failures.                                                               *)
(***************************************************************************)
C39_RunTerminates ==
  <>[](status = "completed" /\ finalReport.made /\ citedReport.made)

\* a run in which every search failed has completed, without a Source
C39_CompletedAfterFailures ==
  /\ mode = "run" /\ status = "completed" /\ finalReport.made
  /\ provider = "unconfigured"
  /\ sources = <<>>
  /\ Len(subagents) > 0
  /\ \A i \in 1..Len(subagents) : subagents[i].status = "completed"
(***************************************************************************)
(* C40: completed is an absorbing status: once the status of a session is  *)
(* completed no later operation changes it, and a repeated                 *)
(* research_session complete returns the stored report without             *)
(* regenerating it.                                                        *)
(***************************************************************************)
C40_CompletedAbsorbing ==
  [][status = "completed"
       => /\ status' = "completed"
          /\ finalReport' = finalReport
          /\ citedReport' = citedReport]_vars

\* research_session complete, twice, on a session nothing else was done to
C40_CompletedTwice ==
  /\ mode = "manual" /\ status = "completed" /\ turn = Free
  /\ toolCalls = 2
  /\ sources = <<>> /\ subagents = <<>> /\ iterationHistory = <<>>
  /\ finalReport.made /\ citedReport.made

====
